---------------------------- MODULE Spec2Model ----------------------------
(***************************************************************************)
(* A small-step model of EsprimaParser (src/lib/EsprimaParser/index.js),   *)
(* the tree-walking interpreter of js-tracker.  The recursive walk on the  *)
(* host call stack is made explicit: every method of the class that calls  *)
(* parseNode recursively is an activation record on `stack`, and one       *)
(* action of the model runs that method from one recursive call to the     *)
(* next.  A host exception in flight is phase = "throw".                   *)
(***************************************************************************)
EXTENDS Integers, Sequences, FiniteSets, TLC

VARIABLES
  prog,          \* the scripts handed to parseAst, in order: [root, scriptUrl]
  script,        \* the index of the script parseAst is called with next
  phase,         \* "ready" | "run" | "throw" | "uncaught"
  stack,         \* activation records of the interpreter's methods, top last
  ret,           \* the value the last finished activation returned
  exc,           \* the exception in flight (phase = "throw")
  flowState,     \* this.flowState : [state, label]
  checkFlag,     \* this.checkFlag
  scriptUrl,     \* this.scriptUrl
  closureStack,  \* this.closureStack : sequence of frame ids, innermost last
  heap,          \* objects and closure frames, by id
  funcs,         \* functionAgentData of every function value created, by id
  collection,    \* this.collection : entries appended so far
  log,           \* observable trace of host calls made by the program
  obs            \* observations recorded at the points the properties speak of

ctl   == <<stack, ret, phase, exc>>
env   == <<scriptUrl, closureStack>>
store == <<heap, funcs>>
chk   == <<checkFlag, collection>>
input == <<prog, script>>
vars  == <<prog, script, phase, stack, ret, exc, flowState, checkFlag, scriptUrl,
           closureStack, heap, funcs, collection, log, obs>>

-----------------------------------------------------------------------------
(* Values of the interpreted language.  Every value is a record of the     *)
(* same shape so that any two values can be compared.                       *)

Undefined  == [t |-> "undefined", n |-> 0, s |-> ""]
Null       == [t |-> "null", n |-> 0, s |-> ""]
Num(i)     == [t |-> "number", n |-> i, s |-> ""]
Str(x)     == [t |-> "string", n |-> 0, s |-> x]
Bool(b)    == [t |-> "boolean", n |-> IF b THEN 1 ELSE 0, s |-> ""]
Fn(id)     == [t |-> "function", n |-> id, s |-> ""]
HostFn(x)  == [t |-> "hostfn", n |-> 0, s |-> x]
Obj(id)    == [t |-> "object", n |-> id, s |-> ""]

\* ToBoolean of the host language, used by every `if (x)`, `x && y`, `!!x`.
Truthy(v) ==
  CASE v.t = "undefined" -> FALSE
    [] v.t = "null"      -> FALSE
    [] v.t = "boolean"   -> v.n = 1
    [] v.t = "number"    -> v.n # 0
    [] v.t = "string"    -> v.s # ""
    [] OTHER             -> TRUE

\* new Callee(method), callee.addArguments(args)
Callee(method, args) == [t |-> "Callee", method |-> method, arguments |-> args]
IsCallee(c) == c.t = "Callee"

-----------------------------------------------------------------------------
(* ESTree nodes.  A node is a record with a `type`; an absent child is     *)
(* NoNode (null in ESTree).                                                 *)

NoNode == [type |-> "null"]
IsNode(n) == n.type # "null"

Lit(i)     == [type |-> "Literal", value |-> Num(i)]
LitB(b)    == [type |-> "Literal", value |-> Bool(b)]
LitS(x)    == [type |-> "Literal", value |-> Str(x)]
Id(x)      == [type |-> "Identifier", name |-> x]
This       == [type |-> "ThisExpression"]
Bin(op, l, r) == [type |-> "BinaryExpression", operator |-> op, left |-> l, right |-> r]
Asg(op, l, r, loc) ==
  [type |-> "AssignmentExpression", operator |-> op, left |-> l, right |-> r, loc |-> loc]
Upd(op, pre, a) ==
  [type |-> "UpdateExpression", operator |-> op, prefix |-> pre, argument |-> a]
Mem(o, p)  == [type |-> "MemberExpression", object |-> o, property |-> Id(p), computed |-> FALSE]
MemC(o, p) == [type |-> "MemberExpression", object |-> o, property |-> p, computed |-> TRUE]
Call(c, as, loc) == [type |-> "CallExpression", callee |-> c, arguments |-> as, loc |-> loc]
FnExp(id, ps, body) ==
  [type |-> "FunctionExpression", id |-> id, params |-> ps, body |-> body]
Logic(op, l, r) == [type |-> "LogicalExpression", operator |-> op, left |-> l, right |-> r]
Cond(t, c, a) ==
  [type |-> "ConditionalExpression", test |-> t, consequent |-> c, alternate |-> a]
SeqExp(es) == [type |-> "SequenceExpression", expressions |-> es]
Unary(op, a) == [type |-> "UnaryExpression", operator |-> op, argument |-> a]

Prog(body)   == [type |-> "Program", body |-> body]
Expr(e)      == [type |-> "ExpressionStatement", expression |-> e]
Block(body)  == [type |-> "BlockStatement", body |-> body]
Empty        == [type |-> "EmptyStatement"]
Ret(a)       == [type |-> "ReturnStatement", argument |-> a]
Lab(l, body) == [type |-> "LabeledStatement", label |-> Id(l), body |-> body]
Brk          == [type |-> "BreakStatement", label |-> NoNode]
BrkL(l)      == [type |-> "BreakStatement", label |-> Id(l)]
Cont         == [type |-> "ContinueStatement", label |-> NoNode]
ContL(l)     == [type |-> "ContinueStatement", label |-> Id(l)]
If(t, c, a)  == [type |-> "IfStatement", test |-> t, consequent |-> c, alternate |-> a]
Switch(d, cs) == [type |-> "SwitchStatement", discriminant |-> d, cases |-> cs]
Case(t, c)   == [type |-> "SwitchCase", test |-> t, consequent |-> c]
Throw(a)     == [type |-> "ThrowStatement", argument |-> a]
Catch(p, b)  == [type |-> "CatchClause", param |-> Id(p), body |-> b]
Try(b, h, f) == [type |-> "TryStatement", block |-> b, handler |-> h, finalizer |-> f]
While(t, b)  == [type |-> "WhileStatement", test |-> t, body |-> b]
DoWhile(b, t) == [type |-> "DoWhileStatement", body |-> b, test |-> t]
For(i, t, u, b) ==
  [type |-> "ForStatement", init |-> i, test |-> t, update |-> u, body |-> b]
ForIn(l, r, b) == [type |-> "ForInStatement", left |-> l, right |-> r, body |-> b]
FnDecl(x, ps, body) ==
  [type |-> "FunctionDeclaration", id |-> Id(x), params |-> ps, body |-> body]
Decl(x, init) == [type |-> "VariableDeclarator", id |-> Id(x), init |-> init]
Var(ds)      == [type |-> "VariableDeclaration", kind |-> "var", declarations |-> ds]

-----------------------------------------------------------------------------
(* FlowState (structures/FlowState): a set of signals and a label.         *)

BREAK    == "BREAK"
CONTINUE == "CONTINUE"
RETURN   == "RETURN"
NullLabel == "<null>"        \* flowState.label === null
NoLabel   == "<undefined>"   \* options.label of a statement that has no label

NewFlowState == [state |-> {}, label |-> NullLabel]
FlowSet(fs, x)   == [fs EXCEPT !.state = @ \cup {x}]
FlowUnset(fs, x) == [fs EXCEPT !.state = @ \ {x}]
setBreak(fs)      == FlowSet(fs, BREAK)
unsetBreak(fs)    == FlowUnset(fs, BREAK)
setContinue(fs)   == FlowSet(fs, CONTINUE)
unsetContinue(fs) == FlowUnset(fs, CONTINUE)
setLabel(fs, l)   == [fs EXCEPT !.label = l]
unsetLabel(fs)    == [fs EXCEPT !.label = NullLabel]
isEitherState(fs)   == fs.state # {}
isReturnState(fs)   == RETURN \in fs.state
isBreakState(fs)    == BREAK \in fs.state
isContinueState(fs) == CONTINUE \in fs.state
isNullLabel(fs)     == fs.label = NullLabel
isLabelMatched(fs, l) == fs.label = l


-----------------------------------------------------------------------------
(* The heap: objects of the host and of the program, and closure frames.   *)
(* An object is [cls, props]; props maps the names of its own properties   *)
(* to values; items are the elements a jQuery set wraps.                    *)

NewObject(cls) == [cls |-> cls, props |-> <<>>, items |-> <<>>]
HasOwn(h, id, name) == name \in DOMAIN h[id].props
PutProp(h, id, name, v) == [h EXCEPT ![id].props = (name :> v) @@ @]
DelProp(h, id, name) ==
  [h EXCEPT ![id].props = [x \in (DOMAIN @) \ {name} |-> @[x]]]

(* ClosureStack (structures/ClosureStack): a stack of frames, each a map   *)
(* name -> value.  The stack is a sequence of frame ids; the frames live   *)
(* in the heap, the outermost one being the host context itself.           *)

Defining(cs, h, name) == {i \in 1..Len(cs) : HasOwn(h, cs[i], name)}
Innermost(S) == CHOOSE i \in S : \A j \in S : j <= i

\* closureStack.get(name): walk outward from the innermost frame
csGet(cs, h, name) ==
  IF Defining(cs, h, name) = {} THEN Undefined
  ELSE h[cs[Innermost(Defining(cs, h, name))]].props[name]

\* closureStack.set(name, value): define on the innermost frame
csSet(cs, h, name, v) == PutProp(h, cs[Len(cs)], name, v)

\* closureStack.update(name, value): write to the nearest frame that
\* defines the name, the outermost frame when none does
csUpdate(cs, h, name, v) ==
  IF Defining(cs, h, name) = {} THEN PutProp(h, cs[1], name, v)
  ELSE PutProp(h, cs[Innermost(Defining(cs, h, name))], name, v)

\* closureStack.getClone(): a new stack over the same frames
getClone(cs) == cs

\* an environment that keeps the outermost frame only
outermostOnly(u, cs) == [scriptUrl |-> u, closureStack |-> <<cs[1]>>]

\* getEnvironment(context)
getEnvironment(u, cs) == [scriptUrl |-> u, closureStack |-> getClone(cs)]

-----------------------------------------------------------------------------
(* The hoisting pre-pass: pure functions of the statements.                *)

RECURSIVE ConcatAll(_)
ConcatAll(ss) == IF ss = <<>> THEN <<>> ELSE Head(ss) \o ConcatAll(Tail(ss))

\* getNameFromPattern(pattern): the name of an Identifier, else undefined
NoName == "<undefined>"
getNameFromPattern(pattern) ==
  IF pattern.type = "Identifier" THEN pattern.name ELSE NoName

getNameFromVariableDeclaration(d) ==
  [i \in 1..Len(d.declarations) |-> getNameFromPattern(d.declarations[i].id)]

filterSubStatements(statement) ==
  CASE statement.type = "BlockStatement" -> statement.body
    [] statement.type = "IfStatement" ->
         <<statement.consequent, statement.alternate>>
    [] statement.type = "SwitchStatement" ->
         ConcatAll([i \in 1..Len(statement.cases) |-> statement.cases[i].consequent])
    [] statement.type = "TryStatement" ->
         <<statement.block,
           IF IsNode(statement.handler) THEN statement.handler.body
           ELSE statement.handler,
           statement.finalizer>>
    [] statement.type = "ForStatement" -> <<statement.init, statement.body>>
    [] statement.type = "ForInStatement" -> <<statement.left, statement.body>>
    [] statement.type \in {"WhileStatement", "DoWhileStatement"} ->
         <<statement.body>>
    [] OTHER -> <<>>

RECURSIVE searchHoistings(_)
parseHoisting(statement) ==
  CASE statement.type = "FunctionDeclaration" ->
         <<getNameFromPattern(statement.id)>>
    [] statement.type = "VariableDeclaration" ->
         IF statement.kind = "var"
         THEN getNameFromVariableDeclaration(statement) ELSE <<>>
    [] OTHER -> searchHoistings(filterSubStatements(statement))

searchHoistings(statements) ==
  ConcatAll([i \in 1..Len(statements) |->
    IF IsNode(statements[i]) THEN parseHoisting(statements[i]) ELSE <<>>])

\* setHoistings(hoistings): setVariables(name, undefined) for each, in order
RECURSIVE setHoistings(_, _, _)
setHoistings(cs, h, hoistings) ==
  IF hoistings = <<>> THEN h
  ELSE setHoistings(cs, csSet(cs, h, Head(hoistings), Undefined), Tail(hoistings))


-----------------------------------------------------------------------------
(* Flow-state rules of the dispatcher, the loops and the try statement.    *)
(* Each takes the FlowState and gives the new FlowState (and the result).  *)

isStatementLabelNeededToUnset(fs, label) ==
  ~isNullLabel(fs) /\ isLabelMatched(fs, label)

\* a post-hook that resets the whole flow state on a matched label
resetStatementLabelState(fs, label) ==
  IF isStatementLabelNeededToUnset(fs, label) THEN NewFlowState ELSE fs

handleStatementLabelState(fs, label) ==
  IF isStatementLabelNeededToUnset(fs, label)
  THEN unsetLabel(unsetBreak(fs)) ELSE fs

setFlowStateLabel(fs, labelNode) ==
  IF IsNode(labelNode) THEN setLabel(fs, getNameFromPattern(labelNode)) ELSE fs

isLoopStateNeededToUnset(fs, label) ==
  isNullLabel(fs) \/ isLabelMatched(fs, label)

\* a loop that takes every break for its own
takeLoopBreakState(fs, label) ==
  [fs |-> unsetLabel(unsetBreak(fs)), result |-> TRUE]

\* a loop that clears a pending break and goes on
overrideBreak(fs, label) ==
  [fs |-> unsetLabel(unsetBreak(fs)), result |-> FALSE]

handleLoopBreakState(fs, label) ==
  [fs |-> IF isLoopStateNeededToUnset(fs, label)
          THEN unsetLabel(unsetBreak(fs)) ELSE fs,
   result |-> TRUE]

\* a loop that takes every pending continue as its own
takeLoopContinueState(fs, label) ==
  [fs |-> unsetLabel(unsetContinue(fs)), result |-> FALSE]

handleLoopContinueState(fs, label) ==
  IF isLoopStateNeededToUnset(fs, label)
  THEN [fs |-> unsetLabel(unsetContinue(fs)), result |-> FALSE]
  ELSE [fs |-> fs, result |-> TRUE]

\* a loop that stops after every evaluation of its body
stopAfterBody(fs, label) == [fs |-> fs, result |-> TRUE]

isLoopNeededToBreak(fs, label) ==
  IF isReturnState(fs) THEN [fs |-> fs, result |-> TRUE]
  ELSE IF isBreakState(fs) THEN handleLoopBreakState(fs, label)
  ELSE IF isContinueState(fs) THEN handleLoopContinueState(fs, label)
  ELSE [fs |-> fs, result |-> FALSE]

\* a switch statement that leaves the flow state as its cases left it
switchKeeps(fs) == fs

\* the unset at the end of SwitchStatement
switchUnset(fs) == FlowUnset(fs, BREAK)

\* the result object of TryStatement: which of value / error it owns
NoResult == [hasValue |-> FALSE, value |-> Undefined,
             hasError |-> FALSE, error |-> Undefined]

\* getExceptionBlockResult(value) merged into result by Object.assign
getExceptionBlockResult(fs, result, value) ==
  IF isReturnState(fs)
  THEN [fs |-> FlowUnset(fs, RETURN),
        result |-> [result EXCEPT !.hasValue = TRUE, !.value = value]]
  ELSE [fs |-> fs, result |-> result]

\* the {error} object of handleCatchClause merged into result
withError(result, e) == [result EXCEPT !.hasError = TRUE, !.error = e]

\* a resolution that lets a remembered error win over a remembered value
errorFirst(result) ==
  IF result.hasError THEN "error"
  ELSE IF result.hasValue THEN "value" ELSE "none"

\* handleExceptionResult(result): "value" | "error" | "none"
handleExceptionResult(result) ==
  IF result.hasValue THEN "value"
  ELSE IF result.hasError THEN "error" ELSE "none"

-----------------------------------------------------------------------------
(* Activation records and the control transfers between them.              *)

Frame(k, node, label) ==
  [k |-> k, pc |-> 0, node |-> node, label |-> label, i |-> 1,
   result |-> Undefined, a |-> Undefined, b |-> Undefined, acc |-> <<>>,
   was |-> <<>>]

PN(node) == Frame("parseNode", node, NoLabel)
PNL(node, label) == Frame("parseNode", node, label)
Stmts(statements) == [Frame("parseStatements", NoNode, NoLabel) EXCEPT !.acc = statements]

Top   == stack[Len(stack)]
Under == SubSeq(stack, 1, Len(stack) - 1)
Running(k) == phase = "run" /\ stack # <<>> /\ Top.k = k
Thrown(k)  == phase = "throw" /\ stack # <<>> /\ Top.k = k

\* the method goes on, as activation f
Resume(f) == stack' = Append(Under, f) /\ UNCHANGED <<ret, phase, exc>>
\* the method, now f, calls g and waits for it
Invoke(f, g) == stack' = Append(Append(Under, f), g) /\ UNCHANGED <<ret, phase, exc>>
\* the method returns v
Return(v) == stack' = Under /\ ret' = v /\ UNCHANGED <<phase, exc>>
\* the method throws e
Raise(e) == stack' = Under /\ phase' = "throw" /\ exc' = e /\ UNCHANGED ret
\* a catch clause of the method, now f, takes the exception and calls g
Caught(f, g) ==
  stack' = Append(Append(Under, f), g) /\ phase' = "run" /\ UNCHANGED <<ret, exc>>

At(pc) == Top.pc = pc
Pc(pc) == [Top EXCEPT !.pc = pc]


-----------------------------------------------------------------------------
(* Observations.  obs.call is the last invocation of a function agent that *)
(* ended: the environment of the interpreter just before it, the script of *)
(* the function, the environment just after it, and how many invocations   *)
(* were running.  obs.site is the last call site or assignment the checker *)
(* gave a status for, obs.asked the number of times the checker was        *)
(* consulted.  None is read by the interpreter.                            *)

NoObs ==
  [call |-> [n |-> 0, before |-> <<>>, inside |-> "", after |-> <<>>,
             threw |-> FALSE, depth |-> 0],
   site |-> [n |-> 0, caller |-> Undefined, status |-> <<>>, info |-> <<>>,
             before |-> <<>>],
   asked |-> 0]

Live == [scriptUrl |-> scriptUrl, closureStack |-> closureStack]
Activations == {i \in 1..Len(stack) : stack[i].k = "parseFunctionAgentData"}

sawCall(f, threw) ==
  obs' = [obs EXCEPT !.call =
            [n |-> @.n + 1, before |-> f.was, inside |-> scriptUrl,
             after |-> [scriptUrl |-> scriptUrl', closureStack |-> closureStack'],
             threw |-> threw, depth |-> Cardinality(Activations)]]

sawSite(exp, asked, status) ==
  obs' = [obs EXCEPT
            !.asked = IF asked THEN @ + 1 ELSE @,
            !.site = IF status.ok
                     THEN [n |-> @.n + 1, caller |-> exp.caller, status |-> status,
                           info |-> exp.info, before |-> collection]
                     ELSE @]

-----------------------------------------------------------------------------
(* Entry point, dispatcher, statement lists.                                *)

parseAst ==
  \/ /\ phase = "ready"
     /\ script <= Len(prog)
     /\ scriptUrl' = prog[script].scriptUrl
     /\ stack' = <<[Frame("parseAst", prog[script].root, NoLabel) EXCEPT !.pc = 1],
                   PN(prog[script].root)>>
     /\ phase' = "run"
     /\ UNCHANGED <<ret, exc, closureStack, store, chk, flowState, input, log, obs>>
  \/ /\ Running("parseAst")
     /\ stack' = <<>>
     /\ phase' = "ready"
     /\ script' = script + 1
     /\ UNCHANGED <<prog, ret, exc, env, store, chk, flowState, log, obs>>

parseNode ==
  /\ Running("parseNode")
  /\ IF At(0)
     THEN /\ IF IsNode(Top.node)
             THEN Invoke(Pc(1), Frame(Top.node.type, Top.node, Top.label))
             ELSE Return(Undefined)
          /\ UNCHANGED flowState
     ELSE /\ flowState' = handleStatementLabelState(flowState, Top.label)
          /\ Return(ret)
  /\ UNCHANGED <<env, store, chk, input, log, obs>>

Program ==
  /\ Running("Program")
  /\ IF At(0)
     THEN /\ heap' = setHoistings(closureStack, heap, searchHoistings(Top.node.body))
          /\ Invoke(Pc(1), Stmts(Top.node.body))
     ELSE /\ Return(Undefined)
          /\ UNCHANGED heap
  /\ UNCHANGED <<env, funcs, chk, flowState, input, log, obs>>

isFunctionDeclaration(statement) == statement.type = "FunctionDeclaration"
nonHoistingStatements(statements) ==
  SelectSeq(statements, LAMBDA x : ~isFunctionDeclaration(x))
Lowest(S) == CHOOSE i \in S : \A j \in S : i <= j

\* parseStatements: parseHoistingStatements (pc 0), then
\* parseNonHoistingStatements (pc 1)
parseStatements ==
  /\ Running("parseStatements")
  /\ LET f == Top
         decls == {j \in f.i..Len(f.acc) : isFunctionDeclaration(f.acc[j])}
         rest == nonHoistingStatements(f.acc)
     IN IF At(0)
        THEN IF decls # {}
             THEN Invoke([f EXCEPT !.i = Lowest(decls) + 1], PN(f.acc[Lowest(decls)]))
             ELSE IF rest = <<>> THEN Return(Undefined)
             ELSE Invoke([f EXCEPT !.pc = 1, !.acc = rest, !.i = 1], PN(rest[1]))
        ELSE IF isEitherState(flowState) \/ f.i = Len(f.acc)
             THEN Return(ret)
             ELSE Invoke([f EXCEPT !.i = @ + 1], PN(f.acc[f.i + 1]))
  /\ UNCHANGED <<env, store, chk, flowState, input, log, obs>>

ExpressionStatement ==
  /\ Running("ExpressionStatement")
  /\ IF At(0) THEN Invoke(Pc(1), PN(Top.node.expression)) ELSE Return(Undefined)
  /\ UNCHANGED <<env, store, chk, flowState, input, log, obs>>

BlockStatement ==
  /\ Running("BlockStatement")
  /\ IF At(0) THEN Invoke(Pc(1), Stmts(Top.node.body)) ELSE Return(ret)
  /\ UNCHANGED <<env, store, chk, flowState, input, log, obs>>

EmptyStatement ==
  /\ Running("EmptyStatement")
  /\ Return(Undefined)
  /\ UNCHANGED <<env, store, chk, flowState, input, log, obs>>

-----------------------------------------------------------------------------
(* Control flow.                                                            *)

\* a return statement that sets RETURN before it evaluates its argument
returnBeforeArgument ==
  /\ Running("ReturnStatement")
  /\ IF At(0) /\ IsNode(Top.node.argument)
     THEN /\ flowState' = FlowSet(flowState, RETURN)
          /\ Invoke(Pc(1), PN(Top.node.argument))
     ELSE /\ flowState' = IF At(0) THEN FlowSet(flowState, RETURN) ELSE flowState
          /\ Return(IF At(0) THEN Undefined ELSE ret)
  /\ UNCHANGED <<env, store, chk, input, log, obs>>

ReturnStatement ==
  /\ Running("ReturnStatement")
  /\ IF At(0) /\ IsNode(Top.node.argument)
     THEN Invoke(Pc(1), PN(Top.node.argument)) /\ UNCHANGED flowState
     ELSE /\ flowState' = FlowSet(flowState, RETURN)
          /\ Return(IF At(0) THEN Undefined ELSE ret)
  /\ UNCHANGED <<env, store, chk, input, log, obs>>

LabeledStatement ==
  /\ Running("LabeledStatement")
  /\ IF At(0)
     THEN Invoke(Pc(1), PNL(Top.node.body, getNameFromPattern(Top.node.label)))
     ELSE Return(ret)
  /\ UNCHANGED <<env, store, chk, flowState, input, log, obs>>

BreakStatement ==
  /\ Running("BreakStatement")
  /\ flowState' = setFlowStateLabel(setBreak(flowState), Top.node.label)
  /\ Return(Undefined)
  /\ UNCHANGED <<env, store, chk, input, log, obs>>

ContinueStatement ==
  /\ Running("ContinueStatement")
  /\ flowState' = setFlowStateLabel(setContinue(flowState), Top.node.label)
  /\ Return(Undefined)
  /\ UNCHANGED <<env, store, chk, input, log, obs>>

IfStatement ==
  /\ Running("IfStatement")
  /\ CASE At(0) -> Invoke(Pc(1), PN(Top.node.test))
       [] At(1) -> Invoke(Pc(2), PN(IF Truthy(ret) THEN Top.node.consequent
                                    ELSE Top.node.alternate))
       [] OTHER -> Return(ret)
  /\ UNCHANGED <<env, store, chk, flowState, input, log, obs>>

\* parseSwitchCases from case i on: test the case, run the matched tail, or
\* leave the switch when the cases are exhausted
scanCases(f, i, discriminant) ==
  IF i > Len(f.node.cases)
  THEN /\ flowState' = switchUnset(flowState)
       /\ Return(Undefined)
  ELSE /\ IF ~IsNode(f.node.cases[i].test)
          THEN Invoke([f EXCEPT !.pc = 3, !.a = discriminant, !.i = i],
                      Stmts(SubSeq(f.node.cases, i, Len(f.node.cases))))
          ELSE Invoke([f EXCEPT !.pc = 2, !.a = discriminant, !.i = i],
                      PN(f.node.cases[i].test))
       /\ UNCHANGED flowState

SwitchStatement ==
  /\ Running("SwitchStatement")
  /\ CASE At(0) -> Invoke(Pc(1), PN(Top.node.discriminant)) /\ UNCHANGED flowState
       [] At(1) -> scanCases(Top, 1, ret)
       [] At(2) ->
            IF ret = Top.a
            THEN /\ Invoke(Pc(3), Stmts(SubSeq(Top.node.cases, Top.i,
                                               Len(Top.node.cases))))
                 /\ UNCHANGED flowState
            ELSE scanCases(Top, Top.i + 1, Top.a)
       [] OTHER -> /\ flowState' = switchUnset(flowState)
                   /\ Return(ret)
  /\ UNCHANGED <<env, store, chk, input, log, obs>>

SwitchCase ==
  /\ Running("SwitchCase")
  /\ IF At(0) THEN Invoke(Pc(1), Stmts(Top.node.consequent)) ELSE Return(ret)
  /\ UNCHANGED <<env, store, chk, flowState, input, log, obs>>

-----------------------------------------------------------------------------
(* Exceptions.                                                              *)

ThrowStatement ==
  /\ Running("ThrowStatement")
  /\ IF At(0) THEN Invoke(Pc(1), PN(Top.node.argument)) ELSE Raise(ret)
  /\ UNCHANGED <<env, store, chk, flowState, input, log, obs>>

\* TryStatement: block (pc 1), handler body (pc 2), finalizer (pc 3).
\* The catch clauses of TryStatement and of handleCatchClause take an
\* exception thrown while the block, resp. the handler body, runs.
TryStatement ==
  /\ stack # <<>> /\ Top.k = "TryStatement"
  /\ \/ phase = "run"
     \/ phase = "throw" /\ Top.pc \in {1, 2}
  /\ LET f == Top
         blk == getExceptionBlockResult(flowState, f.a, ret)
         final(result) == Invoke([f EXCEPT !.pc = 3, !.a = result],
                                 PN(f.node.finalizer))
     IN CASE At(0) ->
               /\ Invoke([f EXCEPT !.pc = 1, !.a = NoResult], PN(f.node.block))
               /\ UNCHANGED <<flowState, heap>>
          [] At(1) /\ phase = "run" ->
               /\ flowState' = blk.fs
               /\ final(blk.result)
               /\ UNCHANGED heap
          [] At(1) /\ phase = "throw" ->
               /\ IF IsNode(f.node.handler)
                  THEN /\ heap' = csSet(closureStack, heap,
                                        getNameFromPattern(f.node.handler.param), exc)
                       /\ Caught([f EXCEPT !.pc = 2], PN(f.node.handler.body))
                  ELSE /\ Caught([f EXCEPT !.pc = 3, !.a = withError(f.a, exc)],
                                 PN(f.node.finalizer))
                       /\ UNCHANGED heap
               /\ UNCHANGED flowState
          [] At(2) /\ phase = "run" ->
               /\ flowState' = blk.fs
               /\ final(blk.result)
               /\ UNCHANGED heap
          [] At(2) /\ phase = "throw" ->
               /\ Caught([f EXCEPT !.pc = 3, !.a = withError(f.a, exc)],
                         PN(f.node.finalizer))
               /\ UNCHANGED <<flowState, heap>>
          [] OTHER ->
               /\ CASE handleExceptionResult(blk.result) = "value" ->
                         /\ flowState' = FlowSet(blk.fs, RETURN)
                         /\ Return(blk.result.value)
                    [] handleExceptionResult(blk.result) = "error" ->
                         /\ flowState' = blk.fs
                         /\ Raise(blk.result.error)
                    [] OTHER ->
                         /\ flowState' = blk.fs
                         /\ Return(Undefined)
               /\ UNCHANGED heap
  /\ UNCHANGED <<env, funcs, chk, input, log, obs>>


-----------------------------------------------------------------------------
(* Loops.                                                                   *)

WhileStatement ==
  /\ Running("WhileStatement")
  /\ LET f == Top
         brk == isLoopNeededToBreak(flowState, f.label)
     IN CASE At(0) -> Invoke(Pc(1), PN(f.node.test)) /\ UNCHANGED flowState
          [] At(1) ->
               /\ IF Truthy(ret) THEN Invoke(Pc(2), PN(f.node.body))
                  ELSE Return(f.result)
               /\ UNCHANGED flowState
          [] OTHER ->
               /\ flowState' = brk.fs
               /\ IF brk.result THEN Return(ret)
                  ELSE Invoke([f EXCEPT !.pc = 1, !.result = ret], PN(f.node.test))
  /\ UNCHANGED <<env, store, chk, input, log, obs>>

\* the protocol DoWhileStatement hands to after the first iteration:
\* this.WhileStatement(doWhileStatement), called with no options
delegateWhile(f) == Frame("WhileStatement", f.node, NoLabel)

DoWhileStatement ==
  /\ Running("DoWhileStatement")
  /\ LET f == Top
         brk == isLoopNeededToBreak(flowState, f.label)
     IN CASE At(0) -> Invoke(Pc(1), PN(f.node.body)) /\ UNCHANGED flowState
          [] At(1) ->
               /\ flowState' = brk.fs
               /\ IF brk.result THEN Return(ret)
                  ELSE Invoke(Pc(2), delegateWhile(f))
          [] OTHER -> Return(ret) /\ UNCHANGED flowState
  /\ UNCHANGED <<env, store, chk, input, log, obs>>

ForStatement ==
  /\ Running("ForStatement")
  /\ LET f == Top
         brk == isLoopNeededToBreak(flowState, f.label)
     IN CASE At(0) -> Invoke(Pc(1), PN(f.node.init)) /\ UNCHANGED flowState
          [] At(1) -> Invoke(Pc(2), PN(f.node.test)) /\ UNCHANGED flowState
          [] At(2) ->
               /\ IF Truthy(ret) THEN Invoke(Pc(3), PN(f.node.body))
                  ELSE Return(f.result)
               /\ UNCHANGED flowState
          [] OTHER ->
               /\ flowState' = brk.fs
               /\ IF brk.result THEN Return(ret)
                  ELSE Invoke([f EXCEPT !.pc = 1, !.result = ret], PN(f.node.update))
  /\ UNCHANGED <<env, store, chk, input, log, obs>>

\* the keys `for (const key in right)` enumerates: the own properties of an
\* object, in the order the host gives them
KeyOrder == <<"p", "q", "r", "x", "y">>
enumerableKeys(h, right) ==
  IF right.t = "object"
  THEN SelectSeq(KeyOrder, LAMBDA x : HasOwn(h, right.n, x))
  ELSE <<>>

\* parseIterator(node): the name of the loop variable
iteratorName(left) ==
  IF left.type = "VariableDeclaration"
  THEN getNameFromVariableDeclaration(left)[1]
  ELSE getNameFromPattern(left)

ForInStatement ==
  /\ Running("ForInStatement")
  /\ LET f == Top
         brk == isLoopNeededToBreak(flowState, f.label)
         keys == enumerableKeys(heap, ret)
         iterate(g, ks, i) ==
           IF i > Len(ks) THEN Return(g.result) /\ UNCHANGED heap
           ELSE /\ heap' = csUpdate(closureStack, heap, iteratorName(g.node.left),
                                    Str(ks[i]))
                /\ Invoke([g EXCEPT !.pc = 3, !.acc = ks, !.i = i], PN(g.node.body))
     IN CASE At(0) /\ f.node.left.type = "VariableDeclaration" ->
               Invoke(Pc(1), PN(f.node.left)) /\ UNCHANGED <<flowState, heap>>
          [] (At(0) /\ f.node.left.type # "VariableDeclaration") \/ At(1) ->
               Invoke(Pc(2), PN(f.node.right)) /\ UNCHANGED <<flowState, heap>>
          [] At(2) -> iterate(f, keys, 1) /\ UNCHANGED flowState
          [] OTHER ->
               /\ flowState' = brk.fs
               /\ IF brk.result THEN Return(ret) /\ UNCHANGED heap
                  ELSE iterate([f EXCEPT !.result = ret], f.acc, f.i + 1)
  /\ UNCHANGED <<env, funcs, chk, input, log, obs>>

-----------------------------------------------------------------------------
(* Declarations and the function protocol.                                 *)

\* parseFunctionExpression: the environment of the interpreter at this
\* moment and the info of the function
parseFunctionExpression(fe) ==
  [scriptUrl |-> getEnvironment(scriptUrl, closureStack).scriptUrl,
   closureStack |-> getEnvironment(scriptUrl, closureStack).closureStack,
   body |-> fe.body,
   params |-> [i \in 1..Len(fe.params) |-> getNameFromPattern(fe.params[i])],
   hoistings |-> searchHoistings(<<fe.body>>)]

FunctionDeclaration ==
  /\ Running("FunctionDeclaration")
  /\ funcs' = Append(funcs, parseFunctionExpression(Top.node))
  /\ heap' = csSet(closureStack, heap, getNameFromPattern(Top.node.id),
                   Fn(Len(funcs) + 1))
  /\ Return(Undefined)
  /\ UNCHANGED <<env, chk, flowState, input, log, obs>>

isVariableNeededToSet(kind, init) == ~(kind = "var" /\ ~IsNode(init))

VariableDeclaration ==
  /\ Running("VariableDeclaration")
  /\ LET f == Top
         ds == f.node.declarations
         needed == {j \in 1..Len(ds) : isVariableNeededToSet(f.node.kind, ds[j].init)}
         todo(i) == {j \in needed : j >= i}
         next(i) == IF todo(i) = {} THEN Return(Undefined)
                    ELSE Invoke([f EXCEPT !.pc = 1, !.i = Lowest(todo(i))],
                                PN(ds[Lowest(todo(i))].init))
     IN IF At(0) THEN next(1) /\ UNCHANGED heap
        ELSE /\ heap' = csSet(closureStack, heap, getNameFromPattern(ds[f.i].id), ret)
             /\ next(f.i + 1)
  /\ UNCHANGED <<env, funcs, chk, flowState, input, log, obs>>

Context == Obj(1)   \* the host context, the outermost frame
Arguments(args) == [t |-> "arguments", n |-> Len(args), s |-> ""]
ArgAt(args, i) == IF i <= Len(args) THEN args[i] ELSE Undefined

\* setBuiltInArguments, then setCalledArguments, on the innermost frame
RECURSIVE setCalledArguments(_, _, _, _, _)
setCalledArguments(cs, h, params, values, i) ==
  IF i > Len(params) THEN h
  ELSE setCalledArguments(cs, csSet(cs, h, params[i], ArgAt(values, i)),
                          params, values, i + 1)

setBuiltInArguments(cs, h, this, args) ==
  csSet(cs, csSet(cs, h, "this", IF Truthy(this) THEN this ELSE Context),
        "arguments", Arguments(args))

\* an activation of the function agent fn, called with receiver `this`
Activation(fn, this, args) ==
  [Frame("parseFunctionAgentData", NoNode, NoLabel) EXCEPT
     !.i = fn.n, !.b = this, !.acc = args]

\* parseFunctionAgentData without its finally block: the environment of
\* the function stays in force
leaveEnvironment(envGlobal, live) == live

\* the environment in force once the finally block of
\* parseFunctionAgentData has run: setEnvironment(this, envGlobal)
restoreEnvironment(envGlobal, live) == envGlobal

\* what parseFunctionAgentData does to the FlowState after the body
functionExit(fs) == FlowUnset(fs, RETURN)

parseFunctionAgentData ==
  /\ stack # <<>> /\ Top.k = "parseFunctionAgentData"
  /\ phase = "run" \/ (phase = "throw" /\ Top.pc = 1)
  /\ LET f == Top
         data == funcs[f.i]
         envGlobal == getEnvironment(scriptUrl, closureStack)
         envFunction == getEnvironment(data.scriptUrl, data.closureStack)
         frameId == Len(heap) + 1
         cs == Append(envFunction.closureStack, frameId)
         h0 == Append(heap, NewObject("Closure"))
         h1 == setHoistings(cs, h0, data.hoistings)
         h2 == setBuiltInArguments(cs, h1, f.b, f.acc)
         h3 == setCalledArguments(cs, h2, data.params, f.acc, 1)
     IN CASE At(0) ->
               /\ scriptUrl' = envFunction.scriptUrl
               /\ closureStack' = cs
               /\ heap' = h3
               /\ Invoke([f EXCEPT !.pc = 1, !.a = envGlobal, !.was = Live],
                         PN(data.body))
               /\ UNCHANGED <<flowState, obs>>
          [] phase = "run" ->
               /\ scriptUrl' = restoreEnvironment(f.a, envGlobal).scriptUrl
               /\ closureStack' = restoreEnvironment(f.a, envGlobal).closureStack
               /\ flowState' = functionExit(flowState)
               /\ Return(ret)
               /\ sawCall(f, FALSE)
               /\ UNCHANGED heap
          [] OTHER ->
               /\ scriptUrl' = restoreEnvironment(f.a, envGlobal).scriptUrl
               /\ closureStack' = restoreEnvironment(f.a, envGlobal).closureStack
               /\ Raise(exc)
               /\ sawCall(f, TRUE)
               /\ UNCHANGED <<flowState, heap>>
  /\ UNCHANGED <<funcs, chk, input, log>>


-----------------------------------------------------------------------------
(* The host: classes of host objects, host functions, the checker.         *)

TypeError == Str("TypeError")
HostError == Str("HostError")

isStyle(h, v)        == v.t = "object" /\ h[v.n].cls = "CSSStyleDeclaration"
isDOMTokenList(h, v) == v.t = "object" /\ h[v.n].cls = "DOMTokenList"
isAttr(h, v)         == v.t = "object" /\ h[v.n].cls = "Attr"
isJquery(h, v)       == v.t = "object" /\ h[v.n].cls = "jQuery"
isStyleOrDOMTokenList(h, v) == isStyle(h, v) \/ isDOMTokenList(h, v)
hasNoParent(h, v) == v.t = "object" /\ ~HasOwn(h, v.n, "parent")
isValidStyleOrDOMTokenList(h, v) == hasNoParent(h, v) /\ isStyleOrDOMTokenList(h, v)

\* the key a value names when used as a property key
PropertyKey(v) == IF v.t = "string" THEN v.s ELSE "#"

\* caller[callee] as a read
CanRead(caller) == caller.t \notin {"undefined", "null"}
ReadMember(h, caller, key) ==
  IF caller.t = "object" /\ HasOwn(h, caller.n, PropertyKey(key))
  THEN h[caller.n].props[PropertyKey(key)] ELSE Undefined

\* host properties whose setter throws
ThrowingSetters == {<<"HTMLElement", "outerHTML">>}
SetterThrows(h, caller, key) ==
  \/ caller.t \in {"undefined", "null"}
  \/ caller.t = "object" /\ <<h[caller.n].cls, PropertyKey(key)>> \in ThrowingSetters

\* checkerDispatcher.dispatch({context, caller, callee}): the status of a
\* call or an assignment on a host object
NoStatus == [ok |-> FALSE, type |-> "", hasTarget |-> FALSE, target |-> Undefined]
Status(type) == [ok |-> TRUE, type |-> type, hasTarget |-> FALSE, target |-> Undefined]
StatusOn(type, target) ==
  [ok |-> TRUE, type |-> type, hasTarget |-> TRUE, target |-> target]

dispatch(h, caller, callee) ==
  LET cls == IF caller.t = "object" THEN h[caller.n].cls ELSE ""
      called == IsCallee(callee)
      name == IF called THEN PropertyKey(callee.method) ELSE PropertyKey(callee)
  IN CASE cls = "HTMLElement" /\ called /\ name \in {"appendChild", "fail", "each"} ->
            Status("manipulation")
       [] cls = "HTMLElement" /\ ~called /\ name \in {"id", "outerHTML"} ->
            Status("attribute")
       [] cls = "CSSStyleDeclaration" /\ ~called -> Status("style")
       [] cls = "DOMTokenList" /\ called /\ name = "add" -> Status("style")
       [] cls = "Attr" /\ ~called /\ name = "value" -> Status("attribute")
       [] cls = "jQuery" /\ called /\ name = "css" -> Status("style")
       [] cls = "jQuery" /\ called /\ name = "appendTo" ->
            StatusOn("manipulation", ArgAt(callee.arguments, 1))
       [] OTHER -> NoStatus

-----------------------------------------------------------------------------
(* The checker hook and the Collection.                                     *)

\* an attribution that always takes the caller for the target
callerAsTarget(h, caller, status) == caller

getTargetObject(h, caller, status) ==
  IF status.hasTarget THEN status.target
  ELSE IF isStyleOrDOMTokenList(h, caller) THEN ReadMember(h, caller, Str("parent"))
  ELSE IF isAttr(h, caller) THEN ReadMember(h, caller, Str("ownerElement"))
  ELSE caller

\* [].concat(isJquery(object) ? object.get() : object)
getTargetElements(h, caller, status) ==
  LET object == getTargetObject(h, caller, status)
  IN IF isJquery(h, object) THEN h[object.n].items ELSE <<object>>

\* collection.addInfoToElements({elements, type, info})
addInfoToElements(col, elements, type, info) ==
  col \o [i \in 1..Len(elements) |->
            [element |-> elements[i], type |-> type, info |-> info]]

addInfoToCollection(col, h, exp, status) ==
  addInfoToElements(col, getTargetElements(h, exp.caller, status), status.type, exp.info)

\* setCheckFlag(exp): whether the checker is consulted, and what it says
consults(flag, exp) == ~flag /\ Truthy(exp.caller)
statusOf(flag, h, exp) ==
  IF consults(flag, exp) THEN dispatch(h, exp.caller, exp.callee) ELSE NoStatus

\* tryToSetCheckFlag(exp, status): flag, collection and `success` afterwards
tryToSetCheckFlag(flag, col, h, exp, status) ==
  IF status.ok
  THEN [flag |-> TRUE, col |-> addInfoToCollection(col, h, exp, status), success |-> TRUE]
  ELSE [flag |-> flag, col |-> col, success |-> FALSE]

setCheckFlag(flag, col, h, exp) ==
  tryToSetCheckFlag(flag, col, h, exp, statusOf(flag, h, exp))

resetCheckFlag(flag, success) == IF success THEN FALSE ELSE flag

NoInfo == [loc |-> 0, scriptUrl |-> ""]
\* an info that does not name the script
infoWithoutScript(expression, u) == [loc |-> expression.loc, scriptUrl |-> ""]

getExpInfo(expression, u) == [loc |-> expression.loc, scriptUrl |-> u]


-----------------------------------------------------------------------------
(* Operator tables (operators/binaryOperators, updateOperators,             *)
(* unaryOperators), on the values the programs of the model compute.       *)

binaryOperators(op, l, r) ==
  CASE op = "+"   -> Num(l.n + r.n)
    [] op = "-"   -> Num(l.n - r.n)
    [] op = "*"   -> Num(l.n * r.n)
    [] op = "<"   -> Bool(l.n < r.n)
    [] op = "===" -> Bool(l = r)
    [] op = "!==" -> Bool(l # r)

updateOperators(op, v) ==
  CASE op = "++" -> Num(v.n + 1)
    [] op = "--" -> Num(v.n - 1)

unaryOperators(op, v) ==
  CASE op = "!" -> Bool(~Truthy(v))
    [] op = "-" -> Num(0 - v.n)

-----------------------------------------------------------------------------
(* Expressions.                                                             *)

Literal ==
  /\ Running("Literal")
  /\ Return(Top.node.value)
  /\ UNCHANGED <<env, store, chk, flowState, input, log, obs>>

\* the value Identifier returns for a name
identifierValue(cs, h, name) ==
  CASE name = "null" -> Null
    [] name = "undefined" -> Undefined
    [] OTHER -> csGet(cs, h, name)

Identifier ==
  /\ Running("Identifier")
  /\ Return(identifierValue(closureStack, heap, Top.node.name))
  /\ UNCHANGED <<env, store, chk, flowState, input, log, obs>>

ThisExpression ==
  /\ Running("ThisExpression")
  /\ Return(csGet(closureStack, heap, "this"))
  /\ UNCHANGED <<env, store, chk, flowState, input, log, obs>>

\* FunctionExpression; with an id, setFunctionExpressionTo pushes a frame
\* binding the name on the closure stack the function agent captured
\* a function expression that binds its name on the live closure stack
bindOnLiveStack ==
  /\ Running("FunctionExpression")
  /\ funcs' = Append(funcs, parseFunctionExpression(Top.node))
  /\ heap' = IF IsNode(Top.node.id)
             THEN csSet(closureStack, heap, getNameFromPattern(Top.node.id),
                        Fn(Len(funcs) + 1))
             ELSE heap
  /\ Return(Fn(Len(funcs) + 1))
  /\ UNCHANGED <<env, chk, flowState, input, log, obs>>

FunctionExpression ==
  /\ Running("FunctionExpression")
  /\ LET data == parseFunctionExpression(Top.node)
         id == Len(funcs) + 1
         frameId == Len(heap) + 1
     IN IF IsNode(Top.node.id)
        THEN /\ heap' = PutProp(Append(heap, NewObject("Closure")), frameId,
                                getNameFromPattern(Top.node.id), Fn(id))
             /\ funcs' = Append(funcs,
                  [data EXCEPT !.closureStack = Append(@, frameId)])
        ELSE /\ heap' = heap
             /\ funcs' = Append(funcs, data)
  /\ Return(Fn(Len(funcs) + 1))
  /\ UNCHANGED <<env, chk, flowState, input, log, obs>>

\* getPatternExp(pattern)
getPatternExp(pattern) ==
  [caller |-> Undefined, callee |-> Str(getNameFromPattern(pattern)), info |-> NoInfo]
\* a reference built from the property alone
fromPropertyOnly(caller, callee) ==
  [caller |-> Undefined, callee |-> callee, info |-> NoInfo]

\* the reference getMemberExp builds
memberExp(caller, callee) == [caller |-> caller, callee |-> callee, info |-> NoInfo]

\* getPropertyKey(key, computed) of a key that is not computed
staticKey(key) == IF key.type = "Identifier" THEN Str(key.name) ELSE key.value

getMemberExp ==
  /\ Running("getMemberExp")
  /\ CASE At(0) -> Invoke(Pc(1), PN(Top.node.object))
       [] At(1) -> IF Top.node.computed
                   THEN Invoke([Top EXCEPT !.pc = 2, !.a = ret], PN(Top.node.property))
                   ELSE Return(memberExp(ret, staticKey(Top.node.property)))
       [] OTHER -> Return(memberExp(Top.a, ret))
  /\ UNCHANGED <<env, store, chk, flowState, input, log, obs>>

\* parseMemberExp(exp) of a member read
MemberExpression ==
  /\ Running("MemberExpression")
  /\ LET exp == ret
         result == ReadMember(heap, exp.caller, exp.callee)
     IN IF At(0)
        THEN Invoke(Pc(1), Frame("getMemberExp", Top.node, NoLabel)) /\ UNCHANGED heap
        ELSE IF ~CanRead(exp.caller) THEN Raise(TypeError) /\ UNCHANGED heap
        ELSE /\ heap' = IF isValidStyleOrDOMTokenList(heap, result)
                        THEN PutProp(heap, result.n, "parent", exp.caller)
                        ELSE heap
             /\ Return(result)
  /\ UNCHANGED <<env, funcs, chk, flowState, input, log, obs>>

\* an assignment that defines every bare identifier in the innermost frame
assignLocally(cs, h, exp, value) ==
  IF exp.caller.t = "undefined" THEN csSet(cs, h, exp.callee.s, value)
  ELSE IF exp.caller.t = "object"
       THEN PutProp(h, exp.caller.n, PropertyKey(exp.callee), value)
       ELSE h

\* handleAssign({caller, callee}, value): the heap afterwards
handleAssign(cs, h, exp, value) ==
  IF exp.caller.t = "undefined" THEN csUpdate(cs, h, exp.callee.s, value)
  ELSE IF exp.caller.t = "object"
       THEN PutProp(h, exp.caller.n, PropertyKey(exp.callee), value)
       ELSE h

\* this.assignmentOperators['='](exp, value), after which the method
\* returns `result`: setCheckFlag, handleAssign, resetCheckFlag
assignment(exp, value, result) ==
  LET set == setCheckFlag(checkFlag, collection, heap, exp)
  IN /\ collection' = set.col
     /\ sawSite(exp, consults(checkFlag, exp), statusOf(checkFlag, heap, exp))
     /\ IF exp.caller.t # "undefined" /\ SetterThrows(heap, exp.caller, exp.callee)
        THEN /\ checkFlag' = set.flag
             /\ heap' = heap
             /\ Raise(TypeError)
        ELSE /\ checkFlag' = resetCheckFlag(set.flag, set.success)
             /\ heap' = handleAssign(closureStack, heap, exp, value)
             /\ Return(result)

UpdateExpression ==
  /\ Running("UpdateExpression")
  /\ LET f == Top
         arg == f.node.argument
         update(origin) == updateOperators(f.node.operator, origin)
         result(origin) == IF f.node.prefix THEN update(origin) ELSE origin
     IN CASE At(0) -> Invoke(Pc(1), PN(arg)) /\ UNCHANGED <<chk, heap, obs>>
          [] At(1) ->
               IF arg.type = "MemberExpression"
               THEN /\ Invoke([f EXCEPT !.pc = 2, !.a = ret],
                              Frame("getMemberExp", arg, NoLabel))
                    /\ UNCHANGED <<chk, heap, obs>>
               ELSE assignment(getPatternExp(arg), update(ret), result(ret))
          [] OTHER -> assignment(ret, update(f.a), result(f.a))
  /\ UNCHANGED <<env, funcs, flowState, input, log>>

UnaryExpression ==
  /\ Running("UnaryExpression")
  /\ LET f == Top
         arg == f.node.argument
         \* the 'delete' operator: delete target[callee]
         delete(exp) ==
           LET target == IF exp.caller.t = "undefined" THEN Context
                         ELSE exp.caller
           IN IF target.t = "null" THEN Raise(TypeError) /\ UNCHANGED heap
              ELSE /\ heap' = IF target.t = "object"
                              THEN DelProp(heap, target.n, PropertyKey(exp.callee))
                              ELSE heap
                   /\ Return(Bool(TRUE))
     IN CASE At(0) /\ f.node.operator # "delete" ->
               Invoke(Pc(1), PN(arg)) /\ UNCHANGED heap
          [] At(0) /\ f.node.operator = "delete" /\ arg.type = "MemberExpression" ->
               Invoke(Pc(1), Frame("getMemberExp", arg, NoLabel)) /\ UNCHANGED heap
          [] At(0) /\ f.node.operator = "delete" /\ arg.type # "MemberExpression" ->
               delete(getPatternExp(arg))
          [] At(1) /\ f.node.operator = "delete" -> delete(ret)
          [] OTHER ->
               Return(unaryOperators(f.node.operator, ret)) /\ UNCHANGED heap
  /\ UNCHANGED <<env, funcs, chk, flowState, input, log, obs>>

BinaryExpression ==
  /\ Running("BinaryExpression")
  /\ CASE At(0) -> Invoke(Pc(1), PN(Top.node.left))
       [] At(1) -> Invoke([Top EXCEPT !.pc = 2, !.a = ret], PN(Top.node.right))
       [] OTHER -> Return(binaryOperators(Top.node.operator, Top.a, ret))
  /\ UNCHANGED <<env, store, chk, flowState, input, log, obs>>

\* operator.replace(/\=$/, '')
stripAssign(op) ==
  CASE op = "="  -> ""
    [] op = "+=" -> "+"
    [] op = "-=" -> "-"
    [] op = "*=" -> "*"

\* transAssignmentToBinary(assignmentExpression)
transAssignmentToBinary(ae) ==
  [type |-> "BinaryExpression", operator |-> stripAssign(ae.operator),
   left |-> ae.left, right |-> ae.right]


AssignmentExpression ==
  /\ Running("AssignmentExpression")
  /\ LET f == Top
         binary == transAssignmentToBinary(f.node)
         \* getAssignValue(assignmentExpression), the reference being exp
         getAssignValue(exp) ==
           IF binary.operator # ""
           THEN Invoke([f EXCEPT !.pc = 2, !.a = exp],
                       Frame("BinaryExpression", binary, NoLabel))
           ELSE Invoke([f EXCEPT !.pc = 2, !.a = exp], PN(binary.right))
     IN CASE At(0) /\ f.node.left.type = "MemberExpression" ->
               /\ Invoke(Pc(1), Frame("getMemberExp", f.node.left, NoLabel))
               /\ UNCHANGED <<chk, heap, obs>>
          [] At(0) /\ f.node.left.type # "MemberExpression" ->
               /\ getAssignValue(getPatternExp(f.node.left))
               /\ UNCHANGED <<chk, heap, obs>>
          [] At(1) -> getAssignValue(ret) /\ UNCHANGED <<chk, heap, obs>>
          [] OTHER ->
               assignment([f.a EXCEPT !.info = getExpInfo(f.node, scriptUrl)], ret, ret)
  /\ UNCHANGED <<env, funcs, flowState, input, log>>

\* logical operators that always evaluate their right operand
eagerOperators(op, left) == TRUE

\* this.logicalOperators[op]: whether the host's || or && goes on to
\* parseNode(right) once parseNode(left) has given `left`
logicalOperators(op, left) ==
  IF op = "||" THEN ~Truthy(left) ELSE Truthy(left)

LogicalExpression ==
  /\ Running("LogicalExpression")
  /\ CASE At(0) -> Invoke(Pc(1), PN(Top.node.left))
       [] At(1) -> IF logicalOperators(Top.node.operator, ret)
                   THEN Invoke(Pc(2), PN(Top.node.right))
                   ELSE Return(ret)
       [] OTHER -> Return(ret)
  /\ UNCHANGED <<env, store, chk, flowState, input, log, obs>>

ConditionalExpression ==
  /\ Running("ConditionalExpression")
  /\ CASE At(0) -> Invoke(Pc(1), PN(Top.node.test))
       [] At(1) -> Invoke(Pc(2), PN(IF Truthy(ret) THEN Top.node.consequent
                                    ELSE Top.node.alternate))
       [] OTHER -> Return(ret)
  /\ UNCHANGED <<env, store, chk, flowState, input, log, obs>>

SequenceExpression ==
  /\ Running("SequenceExpression")
  /\ LET f == Top
         es == f.node.expressions
     IN CASE At(0) /\ es = <<>> -> Return(Undefined)
          [] At(0) /\ es # <<>> -> Invoke([f EXCEPT !.pc = 1, !.i = 1], PN(es[1]))
          [] OTHER -> IF f.i = Len(es) THEN Return(ret)
                      ELSE Invoke([f EXCEPT !.i = @ + 1], PN(es[f.i + 1]))
  /\ UNCHANGED <<env, store, chk, flowState, input, log, obs>>

\* getCalledMethod({caller, callee})
getCalledMethod(h, exp) ==
  IF exp.caller.t = "undefined" THEN exp.callee.method
  ELSE ReadMember(h, exp.caller, exp.callee.method)

\* host functions that call back the function they are given
HostCallers == {"each"}
\* host functions that throw
HostThrowers == {"fail"}
\* what the other host functions return
hostResult(name, caller, args) ==
  CASE name = "appendChild" -> ArgAt(args, 1)
    [] name \in {"css", "add", "appendTo"} -> caller
    [] OTHER -> Undefined

\* CallExpression: getCallExp (pc 0..2), then parseCallExp: setCheckFlag and
\* execute (pc 2), resetCheckFlag when the called method has returned (pc 3)
CallExpression ==
  /\ Running("CallExpression")
  /\ LET f == Top
         callee == f.node.callee
         args == f.node.arguments
         \* parseCallExp(exp) up to the call of the method
         parseCallExp(exp) ==
           LET set == setCheckFlag(checkFlag, collection, heap, exp)
               method == getCalledMethod(heap, exp)
               g == [f EXCEPT !.pc = 3, !.a = exp, !.b = Bool(set.success)]
           IN /\ collection' = set.col
              /\ sawSite(exp, consults(checkFlag, exp), statusOf(checkFlag, heap, exp))
              /\ CASE method.t = "function" ->
                        /\ Invoke(g, Activation(method, exp.caller, exp.callee.arguments))
                        /\ checkFlag' = set.flag
                        /\ UNCHANGED log
                   [] method.t = "hostfn" /\ method.s \in HostCallers
                        /\ ArgAt(exp.callee.arguments, 1).t = "function" ->
                        /\ Invoke(g, Activation(ArgAt(exp.callee.arguments, 1),
                                                exp.caller, <<>>))
                        /\ checkFlag' = set.flag
                        /\ UNCHANGED log
                   [] method.t = "hostfn" /\ method.s = "mark" ->
                        /\ log' = Append(log, ArgAt(exp.callee.arguments, 1))
                        /\ checkFlag' = resetCheckFlag(set.flag, set.success)
                        /\ Return(Undefined)
                   [] method.t = "hostfn" /\ method.s \notin (HostCallers \cup
                                                  HostThrowers \cup {"mark"}) ->
                        /\ checkFlag' = resetCheckFlag(set.flag, set.success)
                        /\ Return(hostResult(method.s, exp.caller, exp.callee.arguments))
                        /\ UNCHANGED log
                   [] OTHER ->
                        /\ checkFlag' = set.flag
                        /\ Raise(IF method.t = "hostfn" /\ method.s \in HostThrowers
                                 THEN HostError ELSE TypeError)
                        /\ UNCHANGED log
         \* parseArguments from argument i on, then parseCallExp
         parseArguments(exp, vals, i) ==
           IF i <= Len(args)
           THEN /\ Invoke([f EXCEPT !.pc = 2, !.a = exp, !.acc = vals, !.i = i],
                          PN(args[i]))
                /\ UNCHANGED <<chk, log, obs>>
           ELSE parseCallExp([exp EXCEPT !.callee.arguments = vals,
                                         !.info = getExpInfo(f.node, scriptUrl)])
     IN CASE At(0) /\ callee.type = "MemberExpression" ->
               /\ Invoke(Pc(1), Frame("getMemberExp", callee, NoLabel))
               /\ UNCHANGED <<chk, log, obs>>
          [] At(0) /\ callee.type # "MemberExpression" ->
               Invoke(Pc(1), PN(callee)) /\ UNCHANGED <<chk, log, obs>>
          [] At(1) /\ callee.type = "MemberExpression" ->
               parseArguments([ret EXCEPT !.callee = Callee(@, <<>>)], <<>>, 1)
          [] At(1) /\ callee.type # "MemberExpression" ->
               parseArguments(memberExp(Undefined, Callee(ret, <<>>)), <<>>, 1)
          [] At(2) -> parseArguments(f.a, Append(f.acc, ret), f.i + 1)
          [] OTHER ->
               /\ checkFlag' = resetCheckFlag(checkFlag, Truthy(f.b))
               /\ Return(ret)
               /\ UNCHANGED <<collection, log, obs>>
  /\ UNCHANGED <<env, store, flowState, input>>

\* an exception leaves a method that has no catch clause for it
propagate ==
  /\ phase = "throw"
  /\ IF stack = <<>>
     THEN phase' = "uncaught" /\ UNCHANGED stack
     ELSE /\ ~(Top.k = "TryStatement" /\ Top.pc \in {1, 2})
          /\ ~(Top.k = "parseFunctionAgentData" /\ Top.pc = 1)
          /\ stack' = Under
          /\ UNCHANGED phase
  /\ UNCHANGED <<ret, exc, env, store, chk, flowState, input, log, obs>>


-----------------------------------------------------------------------------
(* The host context the interpreter is constructed with.                   *)

Host  == Obj(2)   \* context.host, an element
Style == Obj(3)   \* context.host.style
List  == Obj(4)   \* context.host.classList
Attr  == Obj(5)   \* context.host.attr, an attribute node of host
Plain == Obj(6)   \* context.o, a plain object
Jq    == Obj(7)   \* context.jq, a jQuery set wrapping host and other
Other == Obj(8)   \* context.other, another element

Props(pairs) == [x \in {q[1] : q \in pairs} |-> (CHOOSE q \in pairs : q[1] = x)[2]]

InitialHeap ==
  <<[cls |-> "Window", items |-> <<>>,
     props |-> Props({<<"this", Context>>, <<"host", Host>>,
                      <<"o", Plain>>, <<"jq", Jq>>,
                      <<"other", Other>>, <<"mark", HostFn("mark")>>})],
    [cls |-> "HTMLElement", items |-> <<>>,
     props |-> Props({<<"style", Style>>, <<"classList", List>>,
                      <<"attr", Attr>>, <<"id", Str("host")>>,
                      <<"appendChild", HostFn("appendChild")>>,
                      <<"fail", HostFn("fail")>>, <<"each", HostFn("each")>>})],
    [cls |-> "CSSStyleDeclaration", items |-> <<>>, props |-> <<>>],
    [cls |-> "DOMTokenList", items |-> <<>>,
     props |-> Props({<<"add", HostFn("add")>>})],
    [cls |-> "Attr", items |-> <<>>,
     props |-> Props({<<"ownerElement", Host>>, <<"value", Str("v")>>})],
    [cls |-> "Object", items |-> <<>>,
     props |-> Props({<<"p", Num(1)>>, <<"q", Num(2)>>})],
    [cls |-> "jQuery", items |-> <<Host, Other>>,
     props |-> Props({<<"css", HostFn("css")>>, <<"appendTo", HostFn("appendTo")>>})],
    [cls |-> "HTMLElement", items |-> <<>>,
     props |-> Props({<<"appendChild", HostFn("appendChild")>>})]>>


-----------------------------------------------------------------------------
(* Programs.                                                                *)

Script(body, u) == [root |-> Prog(body), scriptUrl |-> u]
V(x, e)  == Var(<<Decl(x, e)>>)
Say(e)   == Call(Id("mark"), <<e>>, 0)
Mark(e)  == Expr(Say(e))
Lt(a, b) == Bin("<", a, b)
Inc(x)   == Upd("++", FALSE, Id(x))

MaxDepth == 2   \* wrappers around the innermost statement of a generated program
MaxIter  == 2   \* iterations the loops of a program share

\* n++ < MaxIter, the test of the loops that must end
Fuel == Lt(Inc("n"), Lit(MaxIter))

\* var a = 1; a += 2; mark(a)
P_compound == <<Script(<<V("a", Lit(1)), Expr(Asg("+=", Id("a"), Lit(2), 1)),
                         Mark(Id("a"))>>, "a.js")>>

\* function f(x) { return x * x } mark(f(5))
P_square == <<Script(<<FnDecl("f", <<Id("x")>>,
                              Block(<<Ret(Bin("*", Id("x"), Id("x")))>>)),
                       Mark(Call(Id("f"), <<Lit(5)>>, 1))>>, "a.js")>>

\* for (var i = 0, s = 0; i < 3; i++) s += i; mark(s)
P_sum == <<Script(<<For(Var(<<Decl("i", Lit(0)), Decl("s", Lit(0))>>),
                        Lt(Id("i"), Lit(3)), Inc("i"),
                        Expr(Asg("+=", Id("s"), Id("i"), 1))),
                    Mark(Id("s"))>>, "a.js")>>

\* outer: for (var i = 0; i < 3; i++) {
\*   for (var j = 0; j < 3; j++) { if (j === 1) break outer } }
\* mark(i); mark(j)
P_outer == <<Script(<<Lab("outer",
                 For(V("i", Lit(0)), Lt(Id("i"), Lit(3)), Inc("i"), Block(<<
                   For(V("j", Lit(0)), Lt(Id("j"), Lit(3)), Inc("j"), Block(<<
                     If(Bin("===", Id("j"), Lit(1)), BrkL("outer"), NoNode)>>))>>))),
               Mark(Id("i")), Mark(Id("j"))>>, "a.js")>>

\* mark((function f() { return (function () { return 7 })() })())
P_seven == <<Script(<<Mark(Call(FnExp(Id("f"), <<>>, Block(<<
                 Ret(Call(FnExp(NoNode, <<>>, Block(<<Ret(Lit(7))>>)), <<>>, 1))>>)),
               <<>>, 2))>>, "a.js")>>

\* host.style.color = 'red'
P_style == <<Script(<<Expr(Asg("=", Mem(Mem(Id("host"), "style"), "color"),
                             LitS("red"), 1))>>, "a.js")>>

\* a.js: mark(1); return; mark(2)        b.js: mark(3); mark(4)
P_topReturn == <<Script(<<Mark(Lit(1)), Ret(NoNode), Mark(Lit(2))>>, "a.js"),
                 Script(<<Mark(Lit(3)), Mark(Lit(4))>>, "b.js")>>

HostCall(name, as, loc) == Expr(Call(Mem(Id("host"), name), as, loc))
Quiet(s) == Try(Block(<<s>>), Catch("e", Block(<<>>)), NoNode)

\* try { host.fail() } catch (e) {}  host.appendChild(other)
P_failCall == <<Script(<<Quiet(HostCall("fail", <<>>, 1)),
                         HostCall("appendChild", <<Id("other")>>, 2)>>, "a.js")>>

\* try { host.outerHTML = 1 } catch (e) {}  host.id = 'x'
P_failSetter == <<Script(<<Quiet(Expr(Asg("=", Mem(Id("host"), "outerHTML"), Lit(1), 1))),
                           Expr(Asg("=", Mem(Id("host"), "id"), LitS("x"), 2))>>,
                         "a.js")>>

\* a.js: function g(k) { if (k < 1) throw 5; return g(k - 1) }
\* b.js: function h() { try { g(1) } catch (e) { return e } }
\*       mark(h())
P_calls == <<Script(<<FnDecl("g", <<Id("k")>>, Block(<<
                        If(Lt(Id("k"), Lit(1)), Throw(Lit(5)), NoNode),
                        Ret(Call(Id("g"), <<Bin("-", Id("k"), Lit(1))>>, 1))>>))>>,
                    "a.js"),
             Script(<<FnDecl("h", <<>>, Block(<<
                        Try(Block(<<Expr(Call(Id("g"), <<Lit(1)>>, 2))>>),
                            Catch("e", Block(<<Ret(Id("e"))>>)), NoNode)>>)),
                      Mark(Call(Id("h"), <<>>, 3))>>, "b.js")>>

\* var n = 0
\* try { L: { switch (1) { case 1: break L } throw 1 } } catch (e) {}
\* mark(8); while (n++ < MaxIter) { break }  mark(9)
P_labelLeak == <<Script(<<V("n", Lit(0)),
                   Quiet(Lab("L", Block(<<
                     Switch(Lit(1), <<Case(Lit(1), <<BrkL("L")>>)>>),
                     Throw(Lit(1))>>))),
                   Mark(Lit(8)),
                   While(Fuel, Block(<<Brk>>)),
                   Mark(Lit(9))>>, "a.js")>>

\* var n = 0
\* L: while (n++ < MaxIter) { switch (1) { case 1: break L } mark(1) }
\* mark(8)
P_switchBreak == <<Script(<<V("n", Lit(0)),
                     Lab("L", While(Fuel, Block(<<
                       Switch(Lit(1), <<Case(Lit(1), <<BrkL("L")>>)>>),
                       Mark(Lit(1))>>))),
                     Mark(Lit(8))>>, "a.js")>>

\* var x = 1; function f() { x = 2; L: { var x } }  f(); mark(x)
P_hoist == <<Script(<<V("x", Lit(1)),
               FnDecl("f", <<>>, Block(<<
                 Expr(Asg("=", Id("x"), Lit(2), 1)),
                 Lab("L", Block(<<V("x", NoNode)>>))>>)),
               Expr(Call(Id("f"), <<>>, 2)),
               Mark(Id("x"))>>, "a.js")>>

\* host.each(function () { host.appendChild(other); host.style.color = 'red' })
\* host.appendChild(other)
P_each == <<Script(<<HostCall("each", <<FnExp(NoNode, <<>>, Block(<<
                        HostCall("appendChild", <<Id("other")>>, 1),
                        Expr(Asg("=", Mem(Mem(Id("host"), "style"), "color"),
                                 LitS("red"), 2))>>))>>, 3),
                     HostCall("appendChild", <<Id("other")>>, 4)>>, "a.js")>>

\* host.classList.add('x'); host.attr.value = 'w'; jq.css('a', 'b')
\* jq.appendTo(other); host.appendChild(other); o.p = 3; host.id = 'y'
P_collect == <<Script(<<
    Expr(Call(Mem(Mem(Id("host"), "classList"), "add"), <<LitS("x")>>, 1)),
    Expr(Asg("=", Mem(Mem(Id("host"), "attr"), "value"), LitS("w"), 2)),
    Expr(Call(Mem(Id("jq"), "css"), <<LitS("a"), LitS("b")>>, 3)),
    Expr(Call(Mem(Id("jq"), "appendTo"), <<Id("other")>>, 4)),
    HostCall("appendChild", <<Id("other")>>, 5),
    Expr(Asg("=", Mem(Id("o"), "p"), Lit(3), 6)),
    Expr(Asg("=", Mem(Id("host"), "id"), LitS("y"), 7))>>, "a.js")>>

\* var k, s = 0; for (k in o) s += o[k]
\* mark(s); ; mark(this === host ? 0 : (1, 2))
\* mark(delete o.p && !o.p); mark(-s || 4)
P_expressions == <<Script(<<
    Var(<<Decl("k", NoNode), Decl("s", Lit(0))>>),
    ForIn(Id("k"), Id("o"), Expr(Asg("+=", Id("s"), MemC(Id("o"), Id("k")), 1))),
    Mark(Id("s")),
    Empty,
    Mark(Cond(Bin("===", This, Id("host")), Lit(0), SeqExp(<<Lit(1), Lit(2)>>))),
    Mark(Logic("&&", Unary("delete", Mem(Id("o"), "p")),
               Unary("!", Mem(Id("o"), "p")))),
    Mark(Logic("||", Unary("-", Id("s")), Lit(4)))>>, "a.js")>>

\* var l = 0, r = 0
\* (l++, 0) && r++; mark(r); (l++, 1) && r++; mark(r)
\* (l++, 0) || r++; mark(r); (l++, 1) || r++; mark(r); mark(l)
P_logic == <<Script(<<
    Var(<<Decl("l", Lit(0)), Decl("r", Lit(0))>>),
    Expr(Logic("&&", SeqExp(<<Inc("l"), Lit(0)>>), Inc("r"))), Mark(Id("r")),
    Expr(Logic("&&", SeqExp(<<Inc("l"), Lit(1)>>), Inc("r"))), Mark(Id("r")),
    Expr(Logic("||", SeqExp(<<Inc("l"), Lit(0)>>), Inc("r"))), Mark(Id("r")),
    Expr(Logic("||", SeqExp(<<Inc("l"), Lit(1)>>), Inc("r"))), Mark(Id("r")),
    Mark(Id("l"))>>, "a.js")>>

\* o.y = 3; mark(o.y)
\* function f() { var n, undefined; n = 4; mark(n); undefined = 5; mark(undefined) }
\* f()
P_roundTrip == <<Script(<<
    Expr(Asg("=", Mem(Id("o"), "y"), Lit(3), 1)), Mark(Mem(Id("o"), "y")),
    FnDecl("f", <<>>, Block(<<
      Var(<<Decl("n", NoNode), Decl("undefined", NoNode)>>),
      Expr(Asg("=", Id("n"), Lit(4), 2)), Mark(Id("n")),
      Expr(Asg("=", Id("undefined"), Lit(5), 3)), Mark(Id("undefined"))>>)),
    Expr(Call(Id("f"), <<>>, 4))>>, "a.js")>>

\* for (;;) { mark(1); break } mark(8)
P_forever == <<Script(<<
    For(NoNode, NoNode, NoNode, Block(<<Mark(Lit(1)), Brk>>)),
    Mark(Lit(8))>>, "a.js")>>

\* var n = 0
\* for (mark(0); (mark(1), n++ < 2); mark(3)) (mark(2), 7)
\* for (mark(4); (mark(5), 0); mark(7)) mark(6)
P_forOrder == <<Script(<<
    Var(<<Decl("n", Lit(0))>>),
    For(Say(Lit(0)), SeqExp(<<Say(Lit(1)), Lt(Inc("n"), Lit(2))>>),
        Say(Lit(3)), Expr(SeqExp(<<Say(Lit(2)), Lit(7)>>))),
    For(Say(Lit(4)), SeqExp(<<Say(Lit(5)), Lit(0)>>),
        Say(Lit(7)), Mark(Lit(6)))>>, "a.js")>>

\* var n = 0
\* for (mark(0); (mark(1), n++ < 2); mark(3)) { mark(2); if (n === 2) { 7; break } }
\* mark(8)
P_forBreak == <<Script(<<
    Var(<<Decl("n", Lit(0))>>),
    For(Say(Lit(0)), SeqExp(<<Say(Lit(1)), Lt(Inc("n"), Lit(3))>>), Say(Lit(3)),
        Block(<<Mark(Lit(2)),
                If(Bin("===", Id("n"), Lit(2)), Block(<<Expr(Lit(7)), Brk>>), NoNode)>>)),
    Mark(Lit(8))>>, "a.js")>>

\* var i = 0, j
\* outer: for (; i++ < 2; mark(9))
\*   for (j = 0; j++ < 2; mark(7)) { if (j === 1) continue; mark(i); continue outer }
\* mark(8)
P_continue == <<Script(<<
    Var(<<Decl("i", Lit(0)), Decl("j", NoNode)>>),
    Lab("outer", For(NoNode, Lt(Inc("i"), Lit(2)), Say(Lit(9)),
      For(Asg("=", Id("j"), Lit(0), 1), Lt(Inc("j"), Lit(2)), Say(Lit(7)),
          Block(<<If(Bin("===", Id("j"), Lit(1)), Cont, NoNode),
                  Mark(Id("i")), ContL("outer")>>)))),
    Mark(Lit(8))>>, "a.js")>>

\* var n = 0
\* L: do { n++; if (n === 2) continue L; mark(n) } while (n < 3)
\* mark(8)
P_doWhile == <<Script(<<
    Var(<<Decl("n", Lit(0))>>),
    Lab("L", DoWhile(Block(<<Expr(Inc("n")),
                             If(Bin("===", Id("n"), Lit(2)), ContL("L"), NoNode),
                             Mark(Id("n"))>>),
                     Lt(Id("n"), Lit(3)))),
    Mark(Lit(8))>>, "a.js")>>

\* switch (2) { case (mark(1), 1): mark(10); case '2': mark(15);
\*              case (mark(2), 2): mark(20); case (mark(3), 3): mark(30); break;
\*              default: mark(40) }
\* switch (5) { case 1: mark(11); default: mark(12); case (mark(4), 5): mark(13) }
\* switch (9) { case (mark(5), 1): mark(14) }
\* mark(8)
P_switch == <<Script(<<
    Switch(Lit(2), <<
      Case(SeqExp(<<Say(Lit(1)), Lit(1)>>), <<Mark(Lit(10))>>),
      Case(LitS("2"), <<Mark(Lit(15))>>),
      Case(SeqExp(<<Say(Lit(2)), Lit(2)>>), <<Mark(Lit(20))>>),
      Case(SeqExp(<<Say(Lit(3)), Lit(3)>>), <<Mark(Lit(30)), Brk>>),
      Case(NoNode, <<Mark(Lit(40))>>)>>),
    Switch(Lit(5), <<
      Case(Lit(1), <<Mark(Lit(11))>>),
      Case(NoNode, <<Mark(Lit(12))>>),
      Case(SeqExp(<<Say(Lit(4)), Lit(5)>>), <<Mark(Lit(13))>>)>>),
    Switch(Lit(9), <<Case(SeqExp(<<Say(Lit(5)), Lit(1)>>), <<Mark(Lit(14))>>)>>),
    Mark(Lit(8))>>, "a.js")>>

\* function a() { try { return 1 } finally { mark(0) } }
\* function b() { try { return 1 } finally { return 2 } }
\* function c() { try { throw 3 } finally { return 4 } }
\* function d() { try { throw 5 } catch (e) { throw 6 } finally { mark(7) } }
\* function e() { try { throw 9 } catch (x) { return x } finally {} }
\* mark(a()); mark(b()); mark(c()); try { d() } catch (y) { mark(y) }
\* mark(e()); try { mark(10) } finally {} mark(8)
P_try == <<Script(<<
    FnDecl("a", <<>>, Block(<<
      Try(Block(<<Ret(Lit(1))>>), NoNode, Block(<<Mark(Lit(0))>>))>>)),
    FnDecl("b", <<>>, Block(<<
      Try(Block(<<Ret(Lit(1))>>), NoNode, Block(<<Ret(Lit(2))>>))>>)),
    FnDecl("c", <<>>, Block(<<
      Try(Block(<<Throw(Lit(3))>>), NoNode, Block(<<Ret(Lit(4))>>))>>)),
    FnDecl("d", <<>>, Block(<<
      Try(Block(<<Throw(Lit(5))>>), Catch("e", Block(<<Throw(Lit(6))>>)),
          Block(<<Mark(Lit(7))>>))>>)),
    FnDecl("e", <<>>, Block(<<
      Try(Block(<<Throw(Lit(9))>>), Catch("x", Block(<<Ret(Id("x"))>>)),
          Block(<<>>))>>)),
    Mark(Call(Id("a"), <<>>, 1)), Mark(Call(Id("b"), <<>>, 2)),
    Mark(Call(Id("c"), <<>>, 3)),
    Try(Block(<<Expr(Call(Id("d"), <<>>, 4))>>), Catch("y", Block(<<Mark(Id("y"))>>)),
        NoNode),
    Mark(Call(Id("e"), <<>>, 5)),
    Try(Block(<<Mark(Lit(10))>>), NoNode, Block(<<>>)),
    Mark(Lit(8))>>, "a.js")>>

\* function r() { try { return 1 } finally { mark(1); mark(2) } }
\* r(); try { try { throw 3 } finally { mark(3); mark(4) } } catch (e) {}
\* try {} finally { mark(5); mark(6) }
\* var n = 0
\* while (n++ < 1) { try { break } finally { mark(7); mark(9) } }
\* mark(8)
P_finally == <<Script(<<
    FnDecl("r", <<>>, Block(<<
      Try(Block(<<Ret(Lit(1))>>), NoNode, Block(<<Mark(Lit(1)), Mark(Lit(2))>>))>>)),
    Expr(Call(Id("r"), <<>>, 1)),
    Try(Block(<<Try(Block(<<Throw(Lit(3))>>), NoNode,
                    Block(<<Mark(Lit(3)), Mark(Lit(4))>>))>>),
        Catch("e", Block(<<>>)), NoNode),
    Try(Block(<<>>), NoNode, Block(<<Mark(Lit(5)), Mark(Lit(6))>>)),
    Var(<<Decl("n", Lit(0))>>),
    While(Lt(Inc("n"), Lit(1)),
          Block(<<Try(Block(<<Brk>>), NoNode,
                      Block(<<Mark(Lit(7)), Mark(Lit(9))>>))>>)),
    Mark(Lit(8))>>, "a.js")>>

\* function f() { return (function () { return 7 })(); mark(0) }
\* mark(f()); mark(8)
P_returnCall == <<Script(<<
    FnDecl("f", <<>>, Block(<<
      Ret(Call(FnExp(NoNode, <<>>, Block(<<Ret(Lit(7))>>)), <<>>, 1)),
      Mark(Lit(0))>>)),
    Mark(Call(Id("f"), <<>>, 2)), Mark(Lit(8))>>, "a.js")>>

\* var g = function me(n) { return n < 1 ? me : me(n - 1) }
\* mark(g(1) === g); mark(me)
P_named == <<Script(<<
    Var(<<Decl("g", FnExp(Id("me"), <<Id("n")>>, Block(<<
      Ret(Cond(Lt(Id("n"), Lit(1)), Id("me"),
               Call(Id("me"), <<Bin("-", Id("n"), Lit(1))>>, 1)))>>)))>>),
    Mark(Bin("===", Call(Id("g"), <<Lit(1)>>, 2), Id("g"))),
    Mark(Id("me"))>>, "a.js")>>

\* function mk() { var c = 0; return function () { return ++c } }
\* var k = mk(); mark(k()); mark(k())
P_counter == <<Script(<<
    FnDecl("mk", <<>>, Block(<<
      Var(<<Decl("c", Lit(0))>>),
      Ret(FnExp(NoNode, <<>>, Block(<<Ret(Upd("++", TRUE, Id("c")))>>)))>>)),
    Var(<<Decl("k", Call(Id("mk"), <<>>, 1))>>),
    Mark(Call(Id("k"), <<>>, 2)), Mark(Call(Id("k"), <<>>, 3))>>, "a.js")>>

\* a.js: function g() { host.id = 'x'; host.appendChild(other) }
\* b.js: g(); host.id = 'y'
P_urls == <<Script(<<FnDecl("g", <<>>, Block(<<
                       Expr(Asg("=", Mem(Id("host"), "id"), LitS("x"), 1)),
                       HostCall("appendChild", <<Id("other")>>, 2)>>))>>, "a.js"),
            Script(<<Expr(Call(Id("g"), <<>>, 3)),
                     Expr(Asg("=", Mem(Id("host"), "id"), LitS("y"), 4))>>, "b.js")>>

\* var x = 0
\* function o() { var c = 0
\*   function inc() { c++; x = x + 1 }  function get() { return c }
\*   inc(); mark(c); inc(); mark(get()) }
\* o(); mark(x)
P_shared == <<Script(<<
    Var(<<Decl("x", Lit(0))>>),
    FnDecl("o", <<>>, Block(<<
      Var(<<Decl("c", Lit(0))>>),
      FnDecl("inc", <<>>, Block(<<
        Expr(Inc("c")),
        Expr(Asg("=", Id("x"), Bin("+", Id("x"), Lit(1)), 1))>>)),
      FnDecl("get", <<>>, Block(<<Ret(Id("c"))>>)),
      Expr(Call(Id("inc"), <<>>, 2)), Mark(Id("c")),
      Expr(Call(Id("inc"), <<>>, 3)), Mark(Call(Id("get"), <<>>, 4))>>)),
    Expr(Call(Id("o"), <<>>, 5)), Mark(Id("x"))>>, "a.js")>>

\* (mark(1), o)[(mark(2), 'p')] += 1; (mark(3), o)[(mark(4), 'p')]++
P_once == <<Script(<<
    Expr(Asg("+=", MemC(SeqExp(<<Say(Lit(1)), Id("o")>>),
                        SeqExp(<<Say(Lit(2)), LitS("p")>>)), Lit(1), 1)),
    Expr(Upd("++", FALSE, MemC(SeqExp(<<Say(Lit(3)), Id("o")>>),
                               SeqExp(<<Say(Lit(4)), LitS("p")>>))))>>, "a.js")>>

\* var p = 'q'; o.p = 1; o.q = 2; mark(o.p); mark(o[p]); mark(o['p'])
P_member == <<Script(<<
    Var(<<Decl("p", LitS("q"))>>),
    Expr(Asg("=", Mem(Id("o"), "p"), Lit(1), 1)),
    Expr(Asg("=", Mem(Id("o"), "q"), Lit(2), 2)),
    Mark(Mem(Id("o"), "p")), Mark(MemC(Id("o"), Id("p"))),
    Mark(MemC(Id("o"), LitS("p")))>>, "a.js")>>

Scenarios == {P_member, P_once, P_shared, P_urls, P_counter, P_named, P_returnCall, P_finally, P_try, P_switch, P_doWhile, P_continue, P_forBreak, P_forOrder, P_forever, P_roundTrip, P_logic, P_expressions, P_collect, P_each, P_hoist, P_switchBreak, P_compound, P_square, P_sum, P_outer, P_seven, P_style,
              P_topReturn, P_failCall, P_failSetter, P_calls, P_labelLeak}

-----------------------------------------------------------------------------
(* A family of control-flow programs: a jump, or a try statement made of   *)
(* two jumps, wrapped in up to MaxDepth loops, switches, labelled           *)
(* statements and try statements, run as a function body and as a script.  *)
(* Only programs a JavaScript parser accepts are kept.                      *)

Jumps == {Ret(Lit(1)), Brk, Cont, BrkL("L"), ContL("L"), Throw(Lit(9))}
Wrap(s) ==
  { While(Fuel, Block(<<s, Mark(Lit(1))>>)),
    DoWhile(Block(<<s, Mark(Lit(2))>>), Fuel),
    For(NoNode, Fuel, NoNode, Block(<<s, Mark(Lit(3))>>)),
    Switch(Lit(1), <<Case(Lit(1), <<s, Mark(Lit(4))>>), Case(NoNode, <<Mark(Lit(5))>>)>>),
    Lab("L", s),
    Try(Block(<<s>>), NoNode, Block(<<Mark(Lit(6))>>)),
    Try(Block(<<s>>), Catch("e", Block(<<Mark(Id("e"))>>)), NoNode) }

RECURSIVE Wrapped(_, _)
Wrapped(S, d) ==
  IF d = 0 THEN S ELSE S \cup UNION {Wrap(s) : s \in Wrapped(S, d - 1)}

TryJumps == {Try(Block(<<a>>), NoNode, Block(<<b>>)) : a \in Jumps, b \in Jumps}

Candidates == Wrapped(Jumps, MaxDepth) \cup Wrapped(TryJumps, MaxDepth - 1)

\* the jumps of a statement have a target: `c` is the syntactic context
LoopTypes == {"WhileStatement", "DoWhileStatement", "ForStatement", "ForInStatement"}
RECURSIVE WellFormed(_, _)
WellFormed(n, c) ==
  LET in(m) == WellFormed(m, [c EXCEPT !.cur = {}])
      all(ms) == \A i \in 1..Len(ms) : in(ms[i])
  IN CASE ~IsNode(n) -> TRUE
       [] n.type = "ReturnStatement" -> c.fn
       [] n.type = "BreakStatement" ->
            IF IsNode(n.label) THEN n.label.name \in c.labels ELSE c.loop \/ c.sw
       [] n.type = "ContinueStatement" ->
            IF IsNode(n.label) THEN n.label.name \in c.loopLabels ELSE c.loop
       [] n.type = "LabeledStatement" ->
            /\ n.label.name \notin c.labels
            /\ WellFormed(n.body, [c EXCEPT !.labels = @ \cup {n.label.name},
                                            !.cur = @ \cup {n.label.name}])
       [] n.type \in LoopTypes ->
            WellFormed(n.body, [c EXCEPT !.loop = TRUE, !.cur = {},
                                         !.loopLabels = @ \cup c.cur])
       [] n.type = "SwitchStatement" ->
            \A i \in 1..Len(n.cases) : \A j \in 1..Len(n.cases[i].consequent) :
               WellFormed(n.cases[i].consequent[j], [c EXCEPT !.sw = TRUE, !.cur = {}])
       [] n.type = "BlockStatement" -> all(n.body)
       [] n.type = "IfStatement" -> in(n.consequent) /\ in(n.alternate)
       [] n.type = "TryStatement" ->
            /\ in(n.block) /\ in(n.finalizer)
            /\ IsNode(n.handler) => in(n.handler.body)
       [] OTHER -> TRUE

Syntax(fn) == [fn |-> fn, loop |-> FALSE, sw |-> FALSE, labels |-> {},
               loopLabels |-> {}, cur |-> {}]

\* var n = 0; function f() { S; mark(7) } mark(f()); mark(8)
InFunction(S) ==
  <<Script(<<V("n", Lit(0)), FnDecl("f", <<>>, Block(<<S, Mark(Lit(7))>>)),
             Mark(Call(Id("f"), <<>>, 1)), Mark(Lit(8))>>, "a.js")>>
\* var n = 0; S; mark(8)
AtTopLevel(S) == <<Script(<<V("n", Lit(0)), S, Mark(Lit(8))>>, "a.js")>>

Generated ==
  {InFunction(S) : S \in {x \in Candidates : WellFormed(x, Syntax(TRUE))}}
  \cup {AtTopLevel(S) : S \in {x \in Candidates : WellFormed(x, Syntax(FALSE))}}

Programs == Scenarios \cup Generated

-----------------------------------------------------------------------------

Init ==
  /\ prog \in Programs
  /\ script = 1
  /\ phase = "ready"
  /\ stack = <<>>
  /\ ret = Undefined
  /\ exc = Undefined
  /\ flowState = NewFlowState
  /\ checkFlag = FALSE
  /\ scriptUrl = "<null>"
  /\ closureStack = <<Context.n>>
  /\ heap = InitialHeap
  /\ funcs = <<>>
  /\ collection = <<>>
  /\ log = <<>>
  /\ obs = NoObs

Next ==
  \/ parseAst \/ parseNode \/ Program \/ parseStatements
  \/ ExpressionStatement \/ BlockStatement \/ EmptyStatement
  \/ ReturnStatement \/ LabeledStatement \/ BreakStatement \/ ContinueStatement
  \/ IfStatement \/ SwitchStatement \/ SwitchCase
  \/ ThrowStatement \/ TryStatement
  \/ WhileStatement \/ DoWhileStatement \/ ForStatement \/ ForInStatement
  \/ FunctionDeclaration \/ VariableDeclaration \/ parseFunctionAgentData
  \/ Literal \/ Identifier \/ ThisExpression \/ FunctionExpression
  \/ getMemberExp \/ MemberExpression \/ UpdateExpression \/ UnaryExpression
  \/ BinaryExpression \/ AssignmentExpression \/ LogicalExpression
  \/ ConditionalExpression \/ SequenceExpression \/ CallExpression
  \/ propagate

Spec == Init /\ [][Next]_vars

Done == phase = "ready" /\ script > Len(prog)

\* parseAst has returned at least once and no script is running
AfterParseAst == phase = "ready" /\ script > 1

-----------------------------------------------------------------------------
(* Properties.                                                              *)

\* C1 (return containment): whenever parseAst has returned, the RETURN flag
\* of the flow state is clear, whatever the program executed.
ReturnContained == AfterParseAst => ~isReturnState(flowState)

\* C2 (check-flag restoration): whenever parseAst has returned, checkFlag is
\* false: every call site or assignment that set it has cleared it, also when
\* the called method or the setter threw and the program caught the exception.
CheckFlagRestored == AfterParseAst => ~checkFlag

\* C3 (environment restoration): for every invocation of an interpreted
\* function that has ended, by returning or by throwing, the scriptUrl and
\* the closureStack right after it are those right before it.
EnvironmentRestored == obs.call.n > 0 => obs.call.after = obs.call.before

\* an invocation made from another script, inside another invocation, has
\* ended by throwing
NestedCallThrew ==
  /\ obs.call.n > 0 /\ obs.call.threw /\ obs.call.depth >= 2
  /\ Len(obs.call.before.closureStack) >= 2
  /\ obs.call.before.scriptUrl # obs.call.inside

\* C4: in every state of the interpreter, if none of BREAK, CONTINUE and
\* RETURN is set in the flow state then its label is null.
LabelNullWhenIdle == flowState.state = {} => isNullLabel(flowState)

\* a statement of the Program body has just returned to the statement loop
AfterTopLevelStatement ==
  /\ phase = "run" /\ Len(stack) = 4
  /\ Top.k = "parseStatements" /\ (Top.pc = 1 \/ Top.i > 1)

\* C5 (label containment): after every top-level statement of a program
\* has returned, if neither BREAK nor CONTINUE is pending, the label of the
\* flow state is null.
LabelContained ==
  AfterTopLevelStatement =>
    (~isBreakState(flowState) /\ ~isContinueState(flowState)
       => isNullLabel(flowState))

LoopConsults ==
  /\ phase = "run" /\ stack # <<>> /\ Top.k \in LoopTypes
  /\ Top.pc = (CASE Top.k = "WhileStatement" -> 2
                 [] Top.k = "DoWhileStatement" -> 1
                 [] OTHER -> 3)
\* a labelled break is pending (and no return)
BreakLabelled ==
  isBreakState(flowState) /\ ~isReturnState(flowState) /\ ~isNullLabel(flowState)
BreakConsumed == ~isBreakState(flowState) /\ isNullLabel(flowState)

\* C7 (labelled break out of nested loops): while `break L` is pending, a
\* loop that L does not label ends and leaves the flow state as it is; the
\* loop that L labels ends without evaluating its body, test or update again
\* and BREAK and the label are clear afterwards; the post-hook of the
\* statement labelled L leaves them clear too; and the scenario
\* `outer: for (i..) for (j..) if (j === 1) break outer` ends with
\* [i, j] = [0, 1], the statements after it having run.
LabelledBreakLeavesNestedLoops ==
  [][/\ (LoopConsults /\ BreakLabelled) =>
          /\ stack' = Under
          /\ IF isLabelMatched(flowState, Top.label)
             THEN BreakConsumed' ELSE flowState' = flowState
     /\ (Running("parseNode") /\ At(1) /\ BreakLabelled
           /\ isLabelMatched(flowState, Top.label)) => BreakConsumed'
     /\ (Done' /\ prog = P_outer) => log' = <<Num(0), Num(1)>>]_vars

\* the loop labelled `outer` consults after its inner loop was left by
\* `break outer`
OuterLoopMeetsBreak ==
  /\ prog = P_outer /\ LoopConsults /\ BreakLabelled
  /\ isLabelMatched(flowState, Top.label)

\* the names a statement declares with var, function bodies left out
RECURSIVE DeclaredVars(_)
DeclaredVars(n) ==
  LET each(ns) == UNION {DeclaredVars(ns[i]) : i \in 1..Len(ns)}
  IN CASE n.type = "VariableDeclaration" ->
            {n.declarations[i].id.name : i \in 1..Len(n.declarations)}
       [] n.type \in {"BlockStatement", "Program"} -> each(n.body)
       [] n.type = "LabeledStatement" -> DeclaredVars(n.body)
       [] n.type = "IfStatement" ->
            DeclaredVars(n.consequent) \cup DeclaredVars(n.alternate)
       [] n.type = "SwitchStatement" ->
            UNION {each(n.cases[i].consequent) : i \in 1..Len(n.cases)}
       [] n.type = "TryStatement" ->
            DeclaredVars(n.block) \cup DeclaredVars(n.finalizer)
              \cup (IF IsNode(n.handler) THEN DeclaredVars(n.handler.body) ELSE {})
       [] n.type = "ForStatement" -> DeclaredVars(n.init) \cup DeclaredVars(n.body)
       [] n.type = "ForInStatement" -> DeclaredVars(n.left) \cup DeclaredVars(n.body)
       [] n.type \in {"WhileStatement", "DoWhileStatement"} -> DeclaredVars(n.body)
       [] OTHER -> {}

\* the functions a statement list declares
DeclaredFunctions(ns) ==
  {ns[i].id.name : i \in {j \in 1..Len(ns) : isFunctionDeclaration(ns[j])}}

\* the frame new names are defined on
CurrentFrame == closureStack[Len(closureStack)]
Below(k) == stack[Len(stack) - k]

\* the pre-pass of a Program is done and no statement of it has run
ProgramHoisted ==
  /\ Running("parseStatements") /\ At(0) /\ Top.i = 1
  /\ Len(stack) >= 2 /\ Below(1).k = "Program"
\* the pre-pass of a function body is done and no statement of it has run
FunctionHoisted ==
  /\ Running("parseNode") /\ At(0)
  /\ Len(stack) >= 2 /\ Below(1).k = "parseFunctionAgentData"
\* the first statement of a body that is not a function declaration starts
FirstStatementStarts ==
  /\ Running("parseNode") /\ At(0) /\ Len(stack) >= 3
  /\ Below(1).k = "parseStatements" /\ Below(1).pc = 1 /\ Below(1).i = 1
  /\ Below(2).k \in {"Program", "BlockStatement"}

IsUndefinedVar(x) ==
  HasOwn(heap, CurrentFrame, x) /\ heap[CurrentFrame].props[x] = Undefined

\* C8 (hoisting): when the pre-pass on a Program or on a function body is
\* done and before any statement runs, every name declared with var
\* anywhere in the body (nested functions apart) is defined with value
\* undefined, a parameter of the function keeping its argument; and when the
\* first non-declaration statement of a body starts, every function declared
\* in the body is bound to a function.
Hoisted ==
  /\ ProgramHoisted => \A x \in DeclaredVars(Below(1).node) : IsUndefinedVar(x)
  /\ FunctionHoisted =>
       \A x \in DeclaredVars(Top.node) :
          \/ IsUndefinedVar(x)
          \/ \E i \in 1..Len(funcs[Below(1).i].params) :
                funcs[Below(1).i].params[i] = x
  /\ FirstStatementStarts =>
       \A x \in DeclaredFunctions(Below(2).node.body) :
          csGet(closureStack, heap, x).t = "function"

\* the call site at stack[i] set checkFlag and its method has not returned
OwnsCheckFlag(i) ==
  stack[i].k = "CallExpression" /\ stack[i].pc = 3 /\ Truthy(stack[i].b)
CheckFlagOwned == \E i \in 1..Len(stack) : OwnsCheckFlag(i)

\* C9 (checker re-entrancy suppression): while checkFlag is on no step
\* consults the checker or appends a Collection entry; the only step that
\* clears checkFlag is the return of the call site that set it; and
\* checkFlag is on exactly while a site that set it is executing, so it is
\* cleared exactly when that site completes.
SuppressedWhileSiteRuns ==
  [][/\ checkFlag => (collection' = collection /\ obs'.asked = obs.asked)
     /\ (checkFlag /\ ~checkFlag') =>
          (stack # <<>> /\ OwnsCheckFlag(Len(stack)) /\ stack' = Under)
     /\ checkFlag' <=> CheckFlagOwned']_vars

\* the element(s) a positive status of the checker is attributed to
ExpectedTarget(h, site) ==
  LET caller == site.caller
  IN CASE site.status.hasTarget -> site.status.target
       [] ~site.status.hasTarget
            /\ h[caller.n].cls \in {"CSSStyleDeclaration", "DOMTokenList"} ->
            h[caller.n].props["parent"]
       [] ~site.status.hasTarget /\ h[caller.n].cls = "Attr" ->
            h[caller.n].props["ownerElement"]
       [] OTHER -> caller
ExpectedElements(h, site) ==
  LET target == ExpectedTarget(h, site)
  IN IF target.t = "object" /\ h[target.n].cls = "jQuery"
     THEN h[target.n].items ELSE <<target>>
ExpectedEntries(h, site) ==
  [i \in 1..Len(ExpectedElements(h, site)) |->
     [element |-> ExpectedElements(h, site)[i], type |-> site.status.type,
      info |-> site.info]]

\* C10 (collection attribution): the Collection grows only when the checker
\* gives a positive status for an assignment or a call, and then by exactly
\* one entry {element, type: status.type, info} per target element, the
\* target being status.target if the status has one, else the parent of a
\* CSSStyleDeclaration or DOMTokenList caller, else the ownerElement of an
\* Attr caller, else the caller; and `host.style.color = 'red'` leaves
\* exactly one entry, whose element is the element that owns the style.
AttributedToTarget ==
  [][/\ collection' # collection => obs'.site.n # obs.site.n
     /\ obs'.site.n # obs.site.n =>
          collection' = collection \o ExpectedEntries(heap, obs'.site)
     /\ (Done' /\ prog = P_style) =>
          collection' = <<[element |-> Host, type |-> "style",
                           info |-> [loc |-> 1, scriptUrl |-> "a.js"]]>>]_vars

\* the assignment through host.style has been recorded on host
StyleAttributedToHost ==
  /\ prog = P_style /\ obs.site.n = 1 /\ obs.site.caller = Style
  /\ Len(collection) = 1 /\ collection[1].element = Host

\* the value of the left operand asks for the right operand
AsksForRight(op, left) ==
  (op = "&&" /\ Truthy(left)) \/ (op = "||" /\ ~Truthy(left))

\* C11 (short-circuit): a logical expression first evaluates its left
\* operand, once; it then evaluates its right operand if and only if the
\* left value is truthy (&&) or falsy (||), and otherwise returns the left
\* value; after the right operand it evaluates nothing more.  With operands
\* that count their evaluations, four expressions evaluate the left operand
\* four times and the right operand twice.
ShortCircuit ==
  [][/\ (Running("LogicalExpression") /\ At(0)) =>
          stack' = Append(Append(Under, Pc(1)), PN(Top.node.left))
     /\ (Running("LogicalExpression") /\ At(1)) =>
          IF AsksForRight(Top.node.operator, ret)
          THEN stack' = Append(Append(Under, Pc(2)), PN(Top.node.right))
          ELSE stack' = Under /\ ret' = ret
     /\ (Running("LogicalExpression") /\ At(2)) => stack' = Under
     /\ (Done' /\ prog = P_logic) =>
          log' = <<Num(0), Num(1), Num(2), Num(2), Num(4)>>]_vars

\* both operators have met a truthy and a falsy left operand
ShortCircuitSeen ==
  /\ Done /\ prog = P_logic
  /\ log = <<Num(0), Num(1), Num(2), Num(2), Num(4)>>

\* the step of AssignmentExpression that stores the value and returns it
Assigns ==
  /\ Running("AssignmentExpression") /\ At(2)
  /\ phase' = phase /\ stack' = Under

\* C12 (reference round-trip): when an assignment has stored v through a
\* reference, a read of the same reference yields v: x.y for an object x
\* whose setter the host does not intercept, and a bare identifier read in
\* the frame that made the assignment.
RoundTrip ==
  [][Assigns =>
       /\ Top.a.caller.t = "object" =>
            ReadMember(heap', Top.a.caller, Top.a.callee) = ret
       /\ Top.a.caller.t = "undefined" =>
            identifierValue(closureStack', heap', Top.a.callee.s) = ret]_vars

\* C13 (absent test): a for statement with no test takes the test as
\* truthy: having evaluated the absent test it goes on to evaluate its
\* body, and `for (;;) { mark(1); break } mark(8)` logs 1 and then 8.
AbsentTestIsTruthy ==
  [][/\ (Running("ForStatement") /\ At(2) /\ ~IsNode(Top.node.test)) =>
          stack' = Append(Append(Under, Pc(3)), PN(Top.node.body))
     /\ (Done' /\ prog = P_forever) => log' = <<Num(1), Num(8)>>]_vars

\* what P_forOrder logs: init, then test, body, update per iteration, then
\* the falsy test; the second loop logs its init and its one test
ForOrderLog ==
  <<Num(0), Num(1), Num(2), Num(3), Num(1), Num(2), Num(3), Num(1),
    Num(4), Num(5)>>

\* C14 (for without interruption): a for statement with a test evaluates
\* init first, then the test; on a truthy test the body, then (nothing
\* pending in the flow state) the update, then the test again; on the first
\* falsy test it returns and evaluates nothing more.  P_forOrder logs init
\* once and test, body, update in that order for each truthy test, and its
\* second loop, whose first test is falsy, returns undefined without
\* evaluating its body.
ForUninterrupted ==
  [][/\ (Running("ForStatement") /\ IsNode(Top.node.test)) =>
          /\ At(0) => stack' = Append(Append(Under, Pc(1)), PN(Top.node.init))
          /\ At(1) => stack' = Append(Append(Under, Pc(2)), PN(Top.node.test))
          /\ (At(2) /\ Truthy(ret)) =>
               stack' = Append(Append(Under, Pc(3)), PN(Top.node.body))
          /\ (At(2) /\ ~Truthy(ret)) => stack' = Under /\ ret' = Top.result
          /\ (At(3) /\ flowState.state = {}) =>
               stack' = Append(Append(Under, [Top EXCEPT !.pc = 1, !.result = ret]),
                               PN(Top.node.update))
     /\ (prog = P_forOrder /\ Running("ForStatement") /\ At(2) /\ log = ForOrderLog) =>
          stack' = Under /\ ret' = Undefined
     /\ (Done' /\ prog = P_forOrder) => log' = ForOrderLog]_vars

\* both loops of P_forOrder have run
ForOrderSeen == Done /\ prog = P_forOrder /\ log = ForOrderLog

\* what P_forBreak logs: one whole iteration, then test and body of the
\* second, whose break ends the loop before its update
ForBreakLog ==
  <<Num(0), Num(1), Num(2), Num(3), Num(1), Num(2), Num(8)>>

\* C15 (break in a for body): when the body of a for statement has left
\* BREAK pending the statement returns at once with the result of that body
\* evaluation, evaluating neither update nor test nor body again; with no
\* break the result it returns on the falsy test is the result of the last
\* body evaluation, which it remembers after every body.
ForBreakStops ==
  [][/\ (Running("ForStatement") /\ At(3) /\ isBreakState(flowState)) =>
          stack' = Under /\ ret' = ret
     /\ (Running("ForStatement") /\ At(3) /\ Len(stack') > Len(Under)) =>
          stack'[Len(Under) + 1].result = ret
     /\ (Running("ForStatement") /\ At(2) /\ ~Truthy(ret)) =>
          stack' = Under /\ ret' = Top.result
     /\ (Done' /\ prog = P_forBreak) => log' = ForBreakLog]_vars

\* the break of P_forBreak has ended its loop
ForBreakSeen == Done /\ prog = P_forBreak /\ log = ForBreakLog

\* a continue is pending, and neither a break nor a return
ContinuePending ==
  isContinueState(flowState) /\ ~isBreakState(flowState) /\ ~isReturnState(flowState)
\* the pending label is not null and is not the label the loop consults with
LabelIsAnothers == ~isNullLabel(flowState) /\ ~isLabelMatched(flowState, Top.label)

\* the loop on top of the stack starts its next iteration
NextIteration ==
  LET kept == [Top EXCEPT !.pc = 1, !.result = ret]
  IN CASE Top.k = "ForStatement" ->
            stack' = Append(Append(Under, kept), PN(Top.node.update))
       [] Top.k = "WhileStatement" ->
            stack' = Append(Append(Under, kept), PN(Top.node.test))
       [] Top.k = "DoWhileStatement" ->
            /\ Len(stack') = Len(stack) + 1
            /\ stack'[Len(stack')].k = "WhileStatement"
            /\ stack'[Len(stack')].node = Top.node
       [] OTHER ->
            Top.i < Len(Top.acc) =>
              /\ Len(stack') = Len(stack) + 1
              /\ stack'[Len(stack')] = PN(Top.node.body)

DoWhileOwnLabel ==
  [][/\ (Running("DoWhileStatement") /\ At(0)) =>
          stack' = Append(Append(Under, Pc(1)), PN(Top.node.body))
     /\ (Running("DoWhileStatement") /\ At(1) /\ Len(stack') > Len(stack)) =>
          /\ stack'[Len(stack')].k = "WhileStatement"
          /\ stack'[Len(stack')].label = Top.label
     /\ (Done' /\ prog = P_doWhile) => log' = <<Num(1), Num(3), Num(8)>>]_vars

\* the switch statement on top of the stack goes to its case i: it runs
\* the cases from i on when case i is the default, evaluates the test of
\* case i otherwise, and returns undefined when there is no case i
TurnsToCase(i) ==
  LET cases == Top.node.cases
  IN IF i > Len(cases) THEN stack' = Under /\ ret' = Undefined /\ log' = log
     ELSE /\ Len(stack') = Len(stack) + 1
          /\ stack'[Len(stack)].i = i
          /\ stack'[Len(stack')] =
               (IF ~IsNode(cases[i].test)
                THEN Stmts(SubSeq(cases, i, Len(cases)))
                ELSE PN(cases[i].test))

\* the switch statement on top of the stack runs its cases from i on
RunsTail(i) ==
  /\ Len(stack') = Len(stack) + 1
  /\ stack'[Len(stack')] = Stmts(SubSeq(Top.node.cases, i, Len(Top.node.cases)))

\* what P_switch logs
SwitchLog ==
  <<Num(1), Num(2), Num(20), Num(30), Num(12), Num(13), Num(5), Num(8)>>

\* C18 (switch): the cases are taken in source order; a default case
\* matches where it stands, another case when its test is strictly equal to
\* the discriminant, and the tests after the matched case are not
\* evaluated; the cases from the matched one on run as one statement list
\* (fall-through until a break, a return or the end); when the switch
\* returns BREAK is clear; when no case matches nothing runs.
SwitchMatching ==
  [][/\ (Running("SwitchStatement") /\ At(1)) => TurnsToCase(1)
     /\ (Running("SwitchStatement") /\ At(2)) =>
          IF ret.t = Top.a.t /\ ret = Top.a
          THEN RunsTail(Top.i) ELSE TurnsToCase(Top.i + 1)
     /\ (Running("SwitchStatement") /\ Top.pc \in {1, 2, 3} /\ stack' = Under) =>
          ~isBreakState(flowState')
     /\ (Running("SwitchStatement") /\ At(3)) => stack' = Under /\ ret' = ret
     /\ (Done' /\ prog = P_switch) => log' = SwitchLog]_vars

\* the three switch statements of P_switch have run
SwitchSeen == Done /\ prog = P_switch /\ log = SwitchLog

\* C19 (labelled break through a switch): a switch statement returning
\* with `break L` pending leaves BREAK and the label L for the loop that L
\* labels, so that in `L: while (n++ < 2) { switch (1) { case 1: break L }
\* mark(1) } mark(8)` the break ends the loop and only 8 is logged.
LabelledBreakPassesSwitch ==
  [][/\ (Running("SwitchStatement") /\ At(3) /\ BreakLabelled) =>
          flowState' = flowState
     /\ (Done' /\ prog = P_switchBreak) => log' = <<Num(8)>>]_vars

\* the try statement on top of the stack goes on to its finalizer,
\* remembering `result`
ToFinalizer(result) ==
  /\ phase' = "run"
  /\ stack' = Append(Append(Under, [Top EXCEPT !.pc = 3, !.a = result]),
                     PN(Top.node.finalizer))

\* what P_try logs
TryLog ==
  <<Num(0), Num(1), Num(2), Num(4), Num(7), Num(6), Num(9), Num(10), Num(8)>>

\* C20 (try resolution): a block or handler that completed with RETURN has
\* its value remembered and RETURN cleared before the finalizer runs; an
\* error of the block with no handler, or of the handler, is remembered
\* and the finalizer runs.  After the finalizer: if it completed with
\* RETURN its value is returned with RETURN set, whatever was remembered;
\* else a remembered value is returned with RETURN set again; else a
\* remembered error is raised; else the statement returns undefined and
\* the flow state is unchanged.
TryResolution ==
  [][/\ (Running("TryStatement") /\ Top.pc \in {1, 2}) =>
          IF isReturnState(flowState)
          THEN /\ flowState' = FlowUnset(flowState, RETURN)
               /\ ToFinalizer([Top.a EXCEPT !.hasValue = TRUE, !.value = ret])
          ELSE flowState' = flowState /\ ToFinalizer(Top.a)
     /\ (Thrown("TryStatement") /\ (At(2) \/ (At(1) /\ ~IsNode(Top.node.handler)))) =>
          /\ flowState' = flowState
          /\ ToFinalizer([Top.a EXCEPT !.hasError = TRUE, !.error = exc])
     /\ (Running("TryStatement") /\ At(3)) =>
          /\ stack' = Under
          /\ CASE isReturnState(flowState) ->
                    phase' = "run" /\ ret' = ret /\ flowState' = flowState
               [] ~isReturnState(flowState) /\ Top.a.hasValue ->
                    /\ phase' = "run" /\ ret' = Top.a.value
                    /\ flowState' = FlowSet(flowState, RETURN)
               [] ~isReturnState(flowState) /\ ~Top.a.hasValue /\ Top.a.hasError ->
                    phase' = "throw" /\ exc' = Top.a.error /\ flowState' = flowState
               [] OTHER ->
                    phase' = "run" /\ ret' = Undefined /\ flowState' = flowState
     /\ (Done' /\ prog = P_try) => log' = TryLog]_vars

\* the try statements of P_try have resolved a value, a value over a
\* value, a value over an error, an error and nothing
TryResolved == Done /\ prog = P_try /\ log = TryLog

\* C21 (finalizer in full): whatever way the block or the handler of a try
\* statement completed, the statement goes on to its finalizer, and the
\* finalizer runs every statement its own control flow reaches: P_finally
\* logs both marks of each finalizer, after a return (1, 2), an error
\* (3, 4), a normal completion (5, 6) and a break (7, 9), then 8.
FinalizerInFull ==
  [][/\ ((Running("TryStatement") \/ Thrown("TryStatement")) /\ Top.pc \in {1, 2}
            /\ ~(Thrown("TryStatement") /\ At(1) /\ IsNode(Top.node.handler))) =>
          /\ Len(stack') = Len(stack) + 1
          /\ stack'[Len(stack')] = PN(Top.node.finalizer)
     /\ (Done' /\ prog = P_finally) =>
          log' = <<Num(1), Num(2), Num(3), Num(4), Num(5), Num(6),
                   Num(7), Num(9), Num(8)>>]_vars

\* C22 (return of a call): a return statement evaluates its argument with
\* the flow state as it found it, and sets RETURN only when the argument
\* has given its value, which it returns; so after `return (function () {
\* return 7 })()` RETURN is set although the exit of the inner function
\* cleared it: f skips its remaining statement and gives 7 (P_returnCall
\* logs 7 and 8, P_seven logs 7), and RETURN is clear at the end.
ReturnAfterArgument ==
  [][/\ (Running("ReturnStatement") /\ At(0) /\ IsNode(Top.node.argument)) =>
          /\ flowState' = flowState
          /\ stack' = Append(Append(Under, Pc(1)), PN(Top.node.argument))
     /\ (Running("ReturnStatement") /\ At(1)) =>
          /\ isReturnState(flowState') /\ ret' = ret /\ stack' = Under
     /\ (Done' /\ prog = P_returnCall) =>
          log' = <<Num(7), Num(8)>> /\ ~isReturnState(flowState')
     /\ (Done' /\ prog = P_seven) =>
          log' = <<Num(7)>> /\ ~isReturnState(flowState')]_vars

\* the return statement of f sets RETURN after the inner function, whose
\* exit cleared it, gave 7
ReturnSetAfterCall ==
  /\ prog = P_returnCall /\ Running("ReturnStatement") /\ At(1)
  /\ Cardinality(Activations) = 1
  /\ ret = Num(7) /\ ~isReturnState(flowState) /\ obs.call.n = 1

\* a function expression with a name is evaluated
NamedFunctionExpression ==
  Running("FunctionExpression") /\ IsNode(Top.node.id)

\* the frames of the closure stack cs that define name
DefinedBy(cs, h, name) == {cs[i] : i \in Defining(cs, h, name)}

\* C23 (named function expression): evaluating a named function
\* expression leaves the live closure stack as it was (same frames, the
\* name defined by none of them that did not define it before); the
\* function's captured stack is the live one with one more frame, which
\* binds the name to the function; inside the body the name is the
\* function itself (P_named: g(1) === g, and `me` is undefined outside).
NameBoundInOverlay ==
  [][/\ NamedFunctionExpression =>
          LET name == getNameFromPattern(Top.node.id)
              fn == funcs'[Len(funcs')]
              overlay == fn.closureStack[Len(fn.closureStack)]
          IN /\ closureStack' = closureStack
             /\ DefinedBy(closureStack', heap', name) = DefinedBy(closureStack, heap, name)
             /\ csGet(closureStack', heap', name) = csGet(closureStack, heap, name)
             /\ Len(funcs') = Len(funcs) + 1 /\ ret' = Fn(Len(funcs'))
             /\ fn.closureStack = Append(closureStack, overlay)
             /\ overlay \notin {closureStack[i] : i \in 1..Len(closureStack)}
             /\ heap'[overlay].props = (name :> ret')
     /\ (prog = P_named /\ Running("Identifier") /\ Top.node.name = "me"
           /\ Activations # {}) => ret' = Fn(1)
     /\ (Done' /\ prog = P_named) => log' = <<Bool(TRUE), Undefined>>]_vars

\* the body of `me` has read its own name, and the program has read `me`
NameReadInside == Done /\ prog = P_named /\ log = <<Bool(TRUE), Undefined>>

\* the frames of a closure stack, the host context (the outermost) left out
OwnFrames(cs) == {cs[i] : i \in 2..Len(cs)}

\* a function agent is entered
Enters == Running("parseFunctionAgentData") /\ At(0)

\* the captured closure stacks never change, and an invocation sees the
\* captured frames, in their order, under one new frame of its own
SequenceKept ==
  /\ \A i \in 1..Len(funcs) : funcs'[i] = funcs[i]
  /\ Enters =>
       /\ Len(closureStack') = Len(funcs[Top.i].closureStack) + 1
       /\ SubSeq(closureStack', 1, Len(closureStack') - 1) = funcs[Top.i].closureStack
       /\ closureStack'[Len(closureStack')] \notin DOMAIN heap

InnermostCall == stack[CHOOSE i \in Activations : \A j \in Activations : j <= i]
InBody == Activations # {} /\ InnermostCall.pc = 1

\* C25 (script of a function): while the body of a function agent runs,
\* scriptUrl is the one captured when the function was created; the info
\* of every site recorded meanwhile names that script; and the exit of the
\* function puts the caller's scriptUrl back.  P_urls: g, defined in a.js
\* and called from b.js, records two sites of a.js, then b.js records one
\* of its own.
ScriptOfFunction ==
  [][/\ InBody' => scriptUrl' = funcs'[InnermostCall'.i].scriptUrl
     /\ (InBody /\ obs'.site.n # obs.site.n) =>
          obs'.site.info.scriptUrl = funcs[InnermostCall.i].scriptUrl
     /\ (stack # <<>> /\ Top.k = "parseFunctionAgentData" /\ At(1)) =>
          scriptUrl' = Top.was.scriptUrl
     /\ (Done' /\ prog = P_urls) =>
          [i \in 1..Len(collection') |-> collection'[i].info.scriptUrl]
            = <<"a.js", "a.js", "b.js">>]_vars

\* g, of a.js, called from b.js, has recorded its second site
SiteOfDefiningScript ==
  /\ prog = P_urls /\ script = 2 /\ InBody
  /\ scriptUrl = "a.js" /\ InnermostCall.was.scriptUrl = "b.js"
  /\ obs.site.n = 2 /\ obs.site.info.scriptUrl = "a.js"

\* neither BREAK nor CONTINUE is pending
NoJumpPending(fs) == ~isBreakState(fs) /\ ~isContinueState(fs)

\* C26 (jumps contained): when a function agent returns normally, and
\* when parseAst returns, neither BREAK nor CONTINUE is set in the flow
\* state.
JumpsContained ==
  [][/\ (Running("parseFunctionAgentData") /\ At(1)) => NoJumpPending(flowState')
     /\ phase' = "ready" => NoJumpPending(flowState')]_vars

TargetEvaluatedOnce ==
  [][(Done' /\ prog = P_once) => log' = <<Num(1), Num(2), Num(3), Num(4)>>]_vars

\* the value of the own property `key` of the object v, undefined without
OwnValue(h, v, key) ==
  IF v.t = "object" /\ key.t = "string" /\ key.s \in DOMAIN h[v.n].props
  THEN h[v.n].props[key.s] ELSE Undefined

\* C29 (member reference): getMemberExp evaluates the object, then,
\* keeping the object's value, the property when the member is computed;
\* the reference it returns has the
\* object's value as caller and, as callee, the property's value when
\* computed and the name (or the value) of the property node otherwise;
\* a member read returns caller[callee].  P_member: with p = 'q',
\* o.p is 1, o[p] is 2 and o['p'] is 1.
MemberReference ==
  [][/\ (Running("getMemberExp") /\ At(0)) =>
          stack' = Append(Append(Under, Pc(1)), PN(Top.node.object))
     /\ (Running("getMemberExp") /\ At(1) /\ Top.node.computed) =>
          /\ Len(stack') = Len(stack) + 1
          /\ stack'[Len(stack')] = PN(Top.node.property)
          /\ stack'[Len(stack)].a = ret
     /\ (Running("getMemberExp") /\ At(1) /\ ~Top.node.computed) =>
          /\ stack' = Under /\ ret'.caller = ret
          /\ ret'.callee = (IF Top.node.property.type = "Identifier"
                            THEN Str(Top.node.property.name)
                            ELSE Top.node.property.value)
     /\ (Running("getMemberExp") /\ At(2)) =>
          /\ stack' = Under /\ ret'.callee = ret
          /\ ret'.caller = Top.a
     /\ (Running("MemberExpression") /\ At(1) /\ phase' = "run") =>
          ret' = OwnValue(heap, ret.caller, ret.callee)
     /\ (Done' /\ prog = P_member) => log' = <<Num(1), Num(2), Num(1)>>]_vars

\* the three member reads of P_member have given their values
MemberRead == Done /\ prog = P_member /\ log = <<Num(1), Num(2), Num(1)>>

=============================================================================
